---- MODULE Spec2Model ----
(***************************************************************************)
(* Button lifecycle engine of pico-link (and its predecessor               *)
(* pico_connector): per-button press/release handlers, the hold-timer      *)
(* lifecycle tasks they spawn and the ramp loops those tasks run, on one   *)
(* asyncio event loop.                                                     *)
(*                                                                         *)
(* Execution model.  Event handlers are synchronous callbacks: one handler *)
(* is one atomic step.  A task created with asyncio.create_task runs from  *)
(* one suspension point (asyncio.sleep) to the next in one atomic step.    *)
(* hass.services.async_call(..., blocking=False) hands the call over and   *)
(* does not suspend, so a service call is part of the step issuing it.     *)
(* task.cancel() only requests cancellation: CancelledError is raised in   *)
(* the task at its suspension point when the loop next runs it; a task     *)
(* cancelled before its first step never runs its body.                    *)
(*                                                                         *)
(* Time is discrete: timers count down clock ticks.  Work that is ready (a *)
(* new task, a pending cancellation, an expired timer) runs before the     *)
(* clock advances; events may arrive at any moment.                        *)
(***************************************************************************)
EXTENDS Integers, FiniteSets, Sequences, TLC

\* ------------------------------------------------------------------ bounds
MaxTasks  == 3      \* lifecycle tasks created in one run
MaxEvents == 3      \* press/release events handled in one run
MaxTicks  == 3      \* ramp ticks issued by one task
MaxEntries == 3     \* device entries of one YAML configuration
HoldTime  == 1      \* conf.hold_time_ms, in clock ticks
StepTime  == 1      \* conf.step_time_ms, in clock ticks
StepPct   == 25     \* conf.step_pct / light_step_pct

\* ------------------------------------------------------- program constants
MAX_STEPS     == 100
MaxBrightness == 255
LowPct        == 5

\* The implementations of the lifecycle found in the repository.
Variants ==
  { "paddle_ctrl",   \* controller.py / pico_connector: paddle, _ramp_loop
    "paddle_p2b",    \* profiles/profile_p2b.py: paddle, SharedBehaviors._ramp
    "five",          \* controller.py: five-button raise/lower on a light
    "l3brl",         \* profiles/profile_3brl.py: raise/lower on a light
    "la_rl",         \* actions/light_actions.py: raise/lower
    "la_onoff",      \* actions/light_actions.py: on/off of the P2B profile
    "mp",            \* actions/media_player_actions.py: raise/lower
    "cover_a",       \* actions/actions_cover.py, 3BRL cover: raise/lower
    "cover_b" }      \* actions/cover_actions.py: raise/lower

Paddle == {"paddle_ctrl", "paddle_p2b"}

Buttons == {"on", "off", "raise", "lower", "stop"}

ButtonsOf(v) ==
  IF v \in Paddle \cup {"la_onoff"} THEN {"on", "off"} ELSE {"raise", "lower"}

DomainsOf(v) ==
  IF v \in Paddle THEN {"light", "fan"}
  ELSE IF v = "mp" THEN {"media_player"}
  ELSE IF v \in {"cover_a", "cover_b"} THEN {"cover"}
  ELSE {"light"}

\* direction = 1 if button == "on" else -1   (raise/lower alike)
Dir(b) == IF b \in {"on", "raise"} THEN 1 ELSE -1

\* hass.states.get(entity): no state object, a state without a brightness
\* attribute, or a brightness.
NoState      == -2
NoBrightness == -1
Brightnesses == {NoBrightness, 1, 100, 255}

VARIABLES
  variant,    \* which implementation this controller runs
  domain,     \* conf.domain / _entity_domain()
  focus,      \* the buttons the events of this run address
  entity,     \* whether hass.states holds a state object for the entity
  stepPct,    \* conf.step_pct
  faults,     \* whether hass.services.async_call raises
  evLimit,    \* events explored in this run
  tickLimit,  \* ramp ticks explored per task in this run
  cfg,        \* the YAML entry of the device and what async_setup made of it
  fan,        \* the fan entity FanActions._step reads, and what it sent
  setup,      \* async_setup: the device entries, the controllers, the stop listener
  dev,        \* a PicoConfig given to validate, and the outcome
  listening,  \* _unsub_event is set: the bus listener is subscribed
  resetMark,  \* number of tasks that existed at the last reset
  raw,        \* data of the last event fired on the bus
  fired,      \* events fired on the bus
  pressed,    \* _pressed[button]
  tasks,      \* _tasks[button]: a task id, 0 for None
  isHolding,  \* LightActions._is_holding[button]
  pressAge,   \* clock ticks since _press_ts[button] was set; -1: never set
  pend,       \* spawned one-shot service calls that have not run yet
  task,       \* the asyncio tasks created so far, by id
  nTasks,     \* number of tasks created
  calls,      \* service calls issued, per button and kind
  hist,       \* events handled, per button
  nEv         \* events handled in total

vars == <<variant, domain, focus, entity, stepPct, faults, evLimit, tickLimit, cfg,
          fan, setup, dev,
          listening, resetMark, raw, fired,
          pressed, tasks, isHolding, pressAge, pend, task, nTasks, calls, hist, nEv>>

\* fixed for the life of a controller
conf == <<variant, domain, focus, entity, stepPct, faults, evLimit, tickLimit, cfg,
          fan, setup, dev>>

\* the controller's surroundings: the event bus and its subscription
env == <<listening, resetMark, raw, fired>>

TaskIds == 1..MaxTasks

NoTask ==
  [ kind |-> "none", btn |-> "none", pc |-> "none", cancelReq |-> FALSE,
    rem |-> 0, steps |-> 0, cur |-> 0,
    \* observations of what the task did
    taps |-> 0, ticks |-> 0, motion |-> 0, lastB |-> -1, expired |-> FALSE, entered |-> FALSE,
    rampEnd |-> "none", relBefore |-> FALSE, fromIdle |-> FALSE,
    age |-> 0, relAge |-> -1, ticksAtRel |-> 0,
    errs |-> 0,    \* errors of service calls caught and logged
    isTap |-> FALSE,    \* the Release of its own Press came before its hold timer
    sawPos |-> FALSE,   \* a release lifecycle read a position that is not None
    log |-> << >> ]     \* the calls of a release lifecycle, in the order issued

\* task.done()
Done(t) == task[t].pc = "done"

\* a task that was created and has neither finished nor been cancelled
Live(t) == task[t].pc \in {"new", "hold", "ramp"} /\ ~task[t].cancelReq

LiveOf(b) == {t \in TaskIds : Live(t) /\ task[t].btn = b}

\* round(255 * (pct / 100)), Python's round-half-even
Round255(pct) ==
  LET n == 255 * pct
      q == n \div 100
      r == n % 100
  IN IF r > 50 THEN q + 1
     ELSE IF r < 50 THEN q
     ELSE IF q % 2 = 0 THEN q ELSE q + 1

StepValue     == Round255(stepPct)
MinBrightness == IF Round255(LowPct) > 1 THEN Round255(LowPct) ELSE 1

\* what a read of the entity's state can return
LightReads == IF entity THEN Brightnesses ELSE {NoState}

\* ------------------------------------------------------------ bookkeeping
\* a payload the bus has not carried
NoEvent == [device |-> "none", button_type |-> "none", action |-> "none"]

\* a YAML entry: the integration it is given to and its raw integers
RawEntry(m, h, s, p) ==
  [module |-> m, status |-> "raw", hold |-> h, step |-> s, pct |-> p]

\* no fan entity is read in this run
NoFan ==
  [status |-> "none", hasState |-> FALSE, pstep |-> 0, cur |-> -1, dir |-> 1,
   ladder |-> << >>, sent |-> -1]

\* async_setup is not part of this run
NoSetup ==
  [status |-> "none", module |-> "none", entries |-> << >>, idx |-> 0,
   controllers |-> << >>,
   stops |-> << >>, registered |-> FALSE, fires |-> 0]

\* no PicoConfig is validated in this run
NoDevice ==
  [status |-> "none", type |-> "none", domains |-> << >>, buttons |-> "none"]

\* the state PicoController.__init__ and async_start leave
InitController ==
  /\ listening = TRUE
  /\ resetMark = 0
  /\ raw = NoEvent
  /\ fired = 0
  /\ pressed = [b \in Buttons |-> FALSE]
  /\ tasks = [b \in Buttons |-> 0]
  /\ isHolding = [b \in Buttons |-> FALSE]
  /\ pressAge = [b \in Buttons |-> -1]
  /\ pend = [b \in Buttons |-> [tap |-> 0, step |-> 0]]
  /\ task = [t \in TaskIds |-> NoTask]
  /\ nTasks = 0
  /\ calls = [b \in Buttons |->
               [tap |-> 0, tick |-> 0, step |-> 0, motion |-> 0, pos |-> 0, stop |-> 0]]
  /\ hist = [b \in Buttons |-> [nPress |-> 0, nRel |-> 0, relSince |-> FALSE]]
  /\ nEv = 0

\* one controller, running; nothing else of the integration is looked at
InitState ==
  /\ cfg = RawEntry("none", 0, 0, 0)
  /\ fan = NoFan /\ setup = NoSetup /\ dev = NoDevice
  /\ listening = TRUE
  /\ resetMark = 0
  /\ raw = NoEvent
  /\ fired = 0
  /\ pressed = [b \in Buttons |-> FALSE]
  /\ tasks = [b \in Buttons |-> 0]
  /\ isHolding = [b \in Buttons |-> FALSE]
  /\ pressAge = [b \in Buttons |-> -1]
  /\ pend = [b \in Buttons |-> [tap |-> 0, step |-> 0]]
  /\ task = [t \in TaskIds |-> NoTask]
  /\ nTasks = 0
  /\ calls = [b \in Buttons |->
               [tap |-> 0, tick |-> 0, step |-> 0, motion |-> 0, pos |-> 0, stop |-> 0]]
  /\ hist = [b \in Buttons |-> [nPress |-> 0, nRel |-> 0, relSince |-> FALSE]]
  /\ nEv = 0

\* one controller, the events of a run addressing one of its buttons
Init ==
  /\ variant \in Variants
  /\ domain \in DomainsOf(variant)
  /\ focus \in {{b} : b \in ButtonsOf(variant)}
  /\ entity \in BOOLEAN
  /\ stepPct = StepPct
  /\ faults = FALSE
  /\ evLimit = MaxEvents
  /\ tickLimit = MaxTicks
  /\ InitState

\* a button nothing is in flight for
Idle(b) ==
  /\ ~pressed[b]
  /\ pend[b].tap = 0 /\ pend[b].step = 0
  /\ \A t \in TaskIds : task[t].btn = b => task[t].pc = "done"

\* asyncio.create_task(coro): the task exists, its body has not run yet
NewTask(kind, b) ==
  [NoTask EXCEPT !.kind = kind, !.btn = b, !.pc = "new", !.fromIdle = Idle(b)]

\* a cancel that is forgotten
CancelIfRunning_Forgotten(f, t) == f

\* `if task and not task.done(): task.cancel()`
CancelIfRunning(f, t) ==
  IF t # 0 /\ f[t].pc # "done" THEN [f EXCEPT ![t].cancelReq = TRUE] ELSE f

\* the Release being handled ends the Press that created task t, before the
\* hold timer of t has expired: t is the task of the latest Press of b and no
\* Release was handled since
OwnRelease(t, b) ==
  /\ task[t].btn = b /\ task[t].kind \notin {"cover_rel", "five"}
  /\ task[t].pc = "new" \/ (task[t].pc = "hold" /\ task[t].rem > 0)
  /\ ~hist[b].relSince
  /\ \A u \in TaskIds : u > t => ~(task[u].btn = b /\ task[u].kind = task[t].kind)

\* what a handled Release means for the tasks of the button: it came before
\* the hold timer of every task that has not yet resumed from its hold sleep;
\* for a paddle lifecycle, the age of its press and the ticks issued so far
NoteRelease(f, b) ==
  [t \in TaskIds |->
     IF f[t].btn # b THEN f[t]
     ELSE IF f[t].kind # "paddle"
     THEN [f[t] EXCEPT !.relBefore = @ \/ (f[t].pc \in {"new", "hold"}),
                       !.isTap = @ \/ OwnRelease(t, b)]
     ELSE [f[t] EXCEPT !.relBefore = @ \/ (f[t].pc \in {"new", "hold"}),
                       !.isTap = @ \/ OwnRelease(t, b),
                       !.relAge = IF @ = -1 THEN f[t].age ELSE @,
                       !.ticksAtRel = IF f[t].relAge = -1 THEN f[t].ticks ELSE @]]

PressHist(b) ==
  /\ hist' = [hist EXCEPT ![b].nPress = @ + 1, ![b].relSince = FALSE]
  /\ nEv' = nEv + 1

ReleaseHist(b) ==
  /\ hist' = [hist EXCEPT ![b].nRel = @ + 1, ![b].relSince = TRUE]
  /\ nEv' = nEv + 1

\* ---------------------------------------------------- paddle: the handlers
\* a press handler that cancels the task of every slot
HandlePressPaddle_CancelsAll(b) ==
  /\ variant \in Paddle /\ b \in focus
  /\ listening /\ nEv < evLimit /\ nTasks < MaxTasks
  /\ task' = [[t \in TaskIds |->
                 IF (\E x \in Buttons : tasks[x] = t) /\ task[t].pc # "done"
                 THEN [task[t] EXCEPT !.cancelReq = TRUE] ELSE task[t]]
                EXCEPT ![nTasks + 1] = NewTask("paddle", b)]
  /\ pressed' = [pressed EXCEPT ![b] = TRUE]
  /\ tasks' = [tasks EXCEPT ![b] = nTasks + 1]
  /\ nTasks' = nTasks + 1
  /\ PressHist(b)
  /\ UNCHANGED <<conf, env, isHolding, pressAge, pend, calls>>

\* PicoController._handle_press_paddle / PaddleSwitchPico.handle_press
HandlePressPaddle(b) ==
  /\ variant \in Paddle /\ b \in focus
  /\ listening /\ nEv < evLimit /\ nTasks < MaxTasks
  /\ task' = [CancelIfRunning(task, tasks[b]) EXCEPT ![nTasks + 1] = NewTask("paddle", b)]
  /\ pressed' = [pressed EXCEPT ![b] = TRUE]
  /\ tasks' = [tasks EXCEPT ![b] = nTasks + 1]
  /\ nTasks' = nTasks + 1
  /\ PressHist(b)
  /\ UNCHANGED <<conf, env, isHolding, pressAge, pend, calls>>

\* a release handler that issues the tap itself
HandleReleasePaddle_Taps(b) ==
  /\ variant \in Paddle /\ b \in focus
  /\ listening /\ nEv < evLimit
  /\ pressed' = [pressed EXCEPT ![b] = FALSE]
  /\ pend' = [pend EXCEPT ![b].tap = @ + 1]
  /\ task' = NoteRelease(task, b)
  /\ ReleaseHist(b)
  /\ UNCHANGED <<conf, env, tasks, isHolding, pressAge, nTasks, calls>>

\* a release handler that cancels the lifecycle task of the button
HandleReleasePaddle_Cancels(b) ==
  /\ variant \in Paddle /\ b \in focus
  /\ listening /\ nEv < evLimit
  /\ pressed' = [pressed EXCEPT ![b] = FALSE]
  /\ task' = NoteRelease(CancelIfRunning(task, tasks[b]), b)
  /\ ReleaseHist(b)
  /\ UNCHANGED <<conf, env, tasks, isHolding, pressAge, pend, nTasks, calls>>

\* PicoController._handle_release_paddle / PaddleSwitchPico.handle_release
HandleReleasePaddle(b) ==
  /\ variant \in Paddle /\ b \in focus
  /\ listening /\ nEv < evLimit
  /\ pressed' = [pressed EXCEPT ![b] = FALSE]
  /\ task' = NoteRelease(task, b)
  /\ ReleaseHist(b)
  /\ UNCHANGED <<conf, env, tasks, isHolding, pressAge, pend, nTasks, calls>>

\* ---------------------------------------- five-button raise/lower (light)
\* a press handler that supersedes only the task of its own button
HandlePressFive_OwnOnly(b) ==
  /\ variant = "five" /\ b \in focus
  /\ listening /\ nEv < evLimit /\ nTasks < MaxTasks
  /\ task' = [CancelIfRunning(task, tasks[b]) EXCEPT ![nTasks + 1] = NewTask("five", b)]
  /\ pressed' = [pressed EXCEPT ![b] = TRUE]
  /\ tasks' = [tasks EXCEPT ![b] = nTasks + 1]
  /\ nTasks' = nTasks + 1
  /\ PressHist(b)
  /\ UNCHANGED <<conf, env, isHolding, pressAge, pend, calls>>

\* PicoController._handle_press_five, the light branch
HandlePressFive(b) ==
  /\ variant = "five" /\ b \in focus
  /\ listening /\ nEv < evLimit /\ nTasks < MaxTasks
  /\ task' = [CancelIfRunning(CancelIfRunning(task, tasks["raise"]), tasks["lower"])
                EXCEPT ![nTasks + 1] = NewTask("five", b)]
  /\ pressed' = [x \in Buttons |->
                   IF x = b THEN TRUE
                   ELSE IF x \in {"raise", "lower"} THEN FALSE ELSE pressed[x]]
  /\ tasks' = [tasks EXCEPT ![b] = nTasks + 1]
  /\ nTasks' = nTasks + 1
  /\ PressHist(b)
  /\ UNCHANGED <<conf, env, isHolding, pressAge, pend, calls>>

\* PicoController._handle_release_five
HandleReleaseFive(b) ==
  /\ variant = "five" /\ b \in focus
  /\ listening /\ nEv < evLimit
  /\ pressed' = [pressed EXCEPT ![b] = FALSE]
  /\ task' = NoteRelease(CancelIfRunning(task, tasks[b]), b)
  /\ tasks' = IF tasks[b] # 0 /\ task[tasks[b]].pc # "done"
                THEN [tasks EXCEPT ![b] = 0] ELSE tasks
  /\ ReleaseHist(b)
  /\ UNCHANGED <<conf, env, isHolding, pressAge, pend, nTasks, calls>>

\* PicoController._handle_press_five, button "stop" (light or fan domain: no
\* call of its own): raise and lower are released and their ramps cancelled
HandlePressFiveStop ==
  /\ variant = "five" /\ "stop" \in focus
  /\ listening /\ nEv < evLimit
  /\ pressed' = [x \in Buttons |-> IF x \in {"raise", "lower"} THEN FALSE ELSE pressed[x]]
  /\ task' = CancelIfRunning(CancelIfRunning(task, tasks["raise"]), tasks["lower"])
  /\ tasks' = [x \in Buttons |->
                 IF x \in {"raise", "lower"} /\ tasks[x] # 0 /\ task[tasks[x]].pc # "done"
                 THEN 0 ELSE tasks[x]]
  /\ PressHist("stop")
  /\ UNCHANGED <<conf, env, isHolding, pressAge, pend, nTasks, calls>>

\* PicoController._handle_press_five, buttons "on" / "off": the short press is
\* spawned
HandlePressFiveOnOff(b) ==
  /\ variant = "five" /\ b \in focus /\ b \in {"on", "off"}
  /\ listening /\ nEv < evLimit
  /\ pend' = [pend EXCEPT ![b].tap = @ + 1]
  /\ PressHist(b)
  /\ UNCHANGED <<conf, env, pressed, tasks, isHolding, pressAge, task, nTasks, calls>>

\* ------------------------------------------- 3BRL raise/lower on a light
\* Pico3ButtonRaiseLower.handle_press -> _handle_raise_lower, case "light"
HandlePress3BRL(b) ==
  /\ variant = "l3brl" /\ b \in focus
  /\ listening /\ nEv < evLimit /\ nTasks < MaxTasks
  /\ pressed' = [pressed EXCEPT ![b] = TRUE]
  /\ pend' = [pend EXCEPT ![b].step = @ + 1]
  /\ task' = [task EXCEPT ![nTasks + 1] = NewTask("l3brl", b)]
  /\ tasks' = [tasks EXCEPT ![b] = nTasks + 1]
  /\ nTasks' = nTasks + 1
  /\ PressHist(b)
  /\ UNCHANGED <<conf, env, isHolding, pressAge, calls>>

\* Pico3ButtonRaiseLower.handle_release, the light branch
HandleRelease3BRL(b) ==
  /\ variant = "l3brl" /\ b \in focus
  /\ listening /\ nEv < evLimit
  /\ pressed' = [pressed EXCEPT ![b] = FALSE]
  /\ task' = NoteRelease(CancelIfRunning(task, tasks[b]), b)
  /\ tasks' = [tasks EXCEPT ![b] = 0]
  /\ ReleaseHist(b)
  /\ UNCHANGED <<conf, env, isHolding, pressAge, pend, nTasks, calls>>

\* Pico3ButtonRaiseLower._handle_stop (light domain, no middle_button action:
\* no call of its own)
HandleStop3BRL ==
  /\ variant = "l3brl" /\ "stop" \in focus
  /\ listening /\ nEv < evLimit
  /\ pressed' = [x \in Buttons |-> IF x \in {"raise", "lower"} THEN FALSE ELSE pressed[x]]
  /\ task' = CancelIfRunning(CancelIfRunning(task, tasks["raise"]), tasks["lower"])
  /\ tasks' = [x \in Buttons |-> IF x \in {"raise", "lower"} THEN 0 ELSE tasks[x]]
  /\ PressHist("stop")
  /\ UNCHANGED <<conf, env, isHolding, pressAge, pend, nTasks, calls>>

\* ----------------------------------------------------------- LightActions
\* LightActions._start_raise_lower (press_raise / press_lower)
LAStartRaiseLower(b) ==
  /\ variant = "la_rl" /\ b \in focus
  /\ listening /\ nEv < evLimit /\ nTasks < MaxTasks
  /\ pressed' = [pressed EXCEPT ![b] = TRUE]
  /\ isHolding' = [isHolding EXCEPT ![b] = FALSE]
  /\ pend' = [pend EXCEPT ![b].step = @ + 1]
  /\ task' = [task EXCEPT ![nTasks + 1] = NewTask("la", b)]
  /\ tasks' = [tasks EXCEPT ![b] = nTasks + 1]
  /\ nTasks' = nTasks + 1
  /\ PressHist(b)
  /\ UNCHANGED <<conf, env, pressAge, calls>>

\* LightActions._stop_raise_lower (release_raise / release_lower)
LAStopRaiseLower(b) ==
  /\ variant = "la_rl" /\ b \in focus
  /\ listening /\ nEv < evLimit
  /\ pressed' = [pressed EXCEPT ![b] = FALSE]
  /\ task' = NoteRelease(CancelIfRunning(task, tasks[b]), b)
  /\ tasks' = [tasks EXCEPT ![b] = 0]
  /\ isHolding' = [isHolding EXCEPT ![b] = FALSE]
  /\ ReleaseHist(b)
  /\ UNCHANGED <<conf, env, pressAge, pend, nTasks, calls>>

\* LightActions._start_onoff_hold (press_on / press_off, P2B)
LAStartOnOffHold(b) ==
  /\ variant = "la_onoff" /\ b \in focus
  /\ listening /\ nEv < evLimit /\ nTasks < MaxTasks
  /\ pressed' = [pressed EXCEPT ![b] = TRUE]
  /\ isHolding' = [isHolding EXCEPT ![b] = FALSE]
  /\ task' = [task EXCEPT ![nTasks + 1] = NewTask("la", b)]
  /\ tasks' = [tasks EXCEPT ![b] = nTasks + 1]
  /\ nTasks' = nTasks + 1
  /\ PressHist(b)
  /\ UNCHANGED <<conf, env, pressAge, pend, calls>>

\* LightActions._finalize_onoff_hold (release_on / release_off, P2B)
LAFinalizeOnOffHold(b) ==
  /\ variant = "la_onoff" /\ b \in focus
  /\ listening /\ nEv < evLimit
  /\ pressed' = [pressed EXCEPT ![b] = FALSE]
  /\ task' = NoteRelease(CancelIfRunning(task, tasks[b]), b)
  /\ pend' = IF ~isHolding[b] THEN [pend EXCEPT ![b].tap = @ + 1] ELSE pend
  /\ tasks' = [tasks EXCEPT ![b] = 0]
  /\ isHolding' = [isHolding EXCEPT ![b] = FALSE]
  /\ ReleaseHist(b)
  /\ UNCHANGED <<conf, env, pressAge, nTasks, calls>>

\* ----------------------------------------------------- MediaPlayerActions
\* MediaPlayerActions._start_raise_lower
MPStartRaiseLower(b) ==
  /\ variant = "mp" /\ b \in focus
  /\ listening /\ nEv < evLimit /\ nTasks < MaxTasks
  /\ pressed' = [pressed EXCEPT ![b] = TRUE]
  /\ pend' = [pend EXCEPT ![b].step = @ + 1]
  /\ task' = [task EXCEPT ![nTasks + 1] = NewTask("mp", b)]
  /\ tasks' = [tasks EXCEPT ![b] = nTasks + 1]
  /\ nTasks' = nTasks + 1
  /\ PressHist(b)
  /\ UNCHANGED <<conf, env, isHolding, pressAge, calls>>

\* MediaPlayerActions._stop_raise_lower
MPStopRaiseLower(b) ==
  /\ variant = "mp" /\ b \in focus
  /\ listening /\ nEv < evLimit
  /\ pressed' = [pressed EXCEPT ![b] = FALSE]
  /\ task' = NoteRelease(CancelIfRunning(task, tasks[b]), b)
  /\ tasks' = [tasks EXCEPT ![b] = 0]
  /\ ReleaseHist(b)
  /\ UNCHANGED <<conf, env, isHolding, pressAge, pend, nTasks, calls>>

\* ------------------------------------------------------ cover raise/lower
\* actions_cover.py CoverActions.handle_press, Pico3ButtonRaiseLower
\* handle_press -> _handle_raise_lower case "cover": the lifecycle task is
\* spawned and no handle is kept
CoverPressA(b) ==
  /\ variant = "cover_a" /\ b \in focus
  /\ listening /\ nEv < evLimit /\ nTasks < MaxTasks
  /\ pressAge' = [pressAge EXCEPT ![b] = 0]
  /\ pressed' = [pressed EXCEPT ![b] = TRUE]
  /\ task' = [task EXCEPT ![nTasks + 1] = NewTask("cover_press", b)]
  /\ nTasks' = nTasks + 1
  /\ PressHist(b)
  /\ UNCHANGED <<conf, env, tasks, isHolding, pend, calls>>

\* actions_cover.py CoverActions.handle_release,
\* Pico3ButtonRaiseLower.handle_release for a cover: all work is spawned
CoverReleaseA(b) ==
  /\ variant = "cover_a" /\ b \in focus
  /\ listening /\ nEv < evLimit /\ nTasks < MaxTasks
  /\ task' = [NoteRelease(task, b) EXCEPT ![nTasks + 1] = NewTask("cover_rel", b)]
  /\ nTasks' = nTasks + 1
  /\ ReleaseHist(b)
  /\ UNCHANGED <<conf, env, pressed, tasks, isHolding, pressAge, pend, calls>>

\* cover_actions.py CoverActions.handle_press
CoverPressB(b) ==
  /\ variant = "cover_b" /\ b \in focus
  /\ listening /\ nEv < evLimit /\ nTasks < MaxTasks
  /\ pressed' = [pressed EXCEPT ![b] = TRUE]
  /\ pressAge' = [pressAge EXCEPT ![b] = 0]
  /\ task' = [task EXCEPT ![nTasks + 1] = NewTask("cover_press", b)]
  /\ tasks' = [tasks EXCEPT ![b] = nTasks + 1]
  /\ nTasks' = nTasks + 1
  /\ PressHist(b)
  /\ UNCHANGED <<conf, env, isHolding, pend, calls>>

\* cover_actions.py CoverActions.handle_release
CoverReleaseB(b) ==
  /\ variant = "cover_b" /\ b \in focus
  /\ listening /\ nEv < evLimit /\ nTasks < MaxTasks
  /\ pressed' = [pressed EXCEPT ![b] = FALSE]
  /\ task' = [NoteRelease(CancelIfRunning(task, tasks[b]), b)
                EXCEPT ![nTasks + 1] = NewTask("cover_rel", b)]
  /\ tasks' = [tasks EXCEPT ![b] = 0]
  /\ nTasks' = nTasks + 1
  /\ ReleaseHist(b)
  /\ UNCHANGED <<conf, env, isHolding, pressAge, pend, calls>>

\* ------------------------------------------------------------------ reset
\* `for t in slots: if t and not t.done(): t.cancel()`
CancelSlots(f) ==
  [t \in TaskIds |->
     IF (\E b \in Buttons : tasks[b] = t) /\ f[t].pc # "done"
     THEN [f[t] EXCEPT !.cancelReq = TRUE] ELSE f[t]]

\* a stop that leaves the pressed flags as they are
AsyncStop_KeepsPressed ==
  /\ variant \in {"paddle_ctrl", "five"}
  /\ listening /\ nEv < evLimit
  /\ listening' = FALSE
  /\ task' = CancelSlots(task)
  /\ tasks' = [b \in Buttons |-> 0]
  /\ resetMark' = nTasks
  /\ nEv' = nEv + 1
  /\ UNCHANGED <<conf, raw, fired, pressed, isHolding, pressAge, pend, nTasks, calls, hist>>

\* PicoController.async_stop: unsubscribe, cancel the running slot tasks,
\* clear every slot and every pressed flag
AsyncStop ==
  /\ variant \in {"paddle_ctrl", "five"}
  /\ listening /\ nEv < evLimit
  /\ listening' = FALSE
  /\ task' = CancelSlots(task)
  /\ tasks' = [b \in Buttons |-> 0]
  /\ pressed' = [b \in Buttons |-> FALSE]
  /\ resetMark' = nTasks
  /\ nEv' = nEv + 1
  /\ UNCHANGED <<conf, raw, fired, isHolding, pressAge, pend, nTasks, calls, hist>>

\* MediaPlayerActions.reset_state, CoverActions.reset_state (cover_actions.py):
\* the subscription stays
ResetState ==
  /\ variant \in {"mp", "cover_b"}
  /\ listening /\ nEv < evLimit
  /\ task' = CancelSlots(task)
  /\ pressed' = [b \in Buttons |-> FALSE]
  /\ tasks' = [b \in Buttons |-> 0]
  /\ pressAge' = [b \in Buttons |-> -1]
  /\ resetMark' = nTasks
  /\ nEv' = nEv + 1
  /\ UNCHANGED <<conf, listening, raw, fired, isHolding, pend, nTasks, calls, hist>>

\* -------------------------------------------------------------- event bus
DeviceId == "pico1"
Missing  == "<missing>"
None     == "<None>"

\* const.py SUPPORTED_BUTTONS
SUPPORTED_BUTTONS ==
  {"button_1", "button_2", "button_3", "lower", "off", "on", "raise", "stop"}

\* the payloads the bus carries
Devices     == {DeviceId, "pico2"}
ButtonTypes == {Missing, "", "on", "On", "raise", "stop", "button_1", "bogus"}
ActionNames == {Missing, "", "press", "PRESS", "release", "hold"}

\* str(x).lower() on the strings above
Lower(x) ==
  IF x = "On" THEN "on" ELSE IF x = "PRESS" THEN "press" ELSE x

\* `not x` for data.get(key): the key is missing or its value is empty
Falsy(x) == x \in {Missing, ""}

\* PicoController._map_event_payload
MapEventPayload(data) ==
  IF Falsy(data.button_type) \/ Falsy(data.action) THEN <<None, None>>
  ELSE IF Lower(data.action) \notin {"press", "release"} THEN <<None, None>>
  ELSE <<Lower(data.button_type), Lower(data.action)>>

\* _handle_event without the device_id test
Accepted_AnyDevice(data) ==
  LET m == MapEventPayload(data)
  IN /\ m[1] # None /\ m[2] # None
     /\ m[1] \in SUPPORTED_BUTTONS

\* _handle_event up to the routing: the event reaches a profile handler
Accepted(data) ==
  LET m == MapEventPayload(data)
  IN /\ data.device = DeviceId
     /\ m[1] # None /\ m[2] # None
     /\ m[1] \in SUPPORTED_BUTTONS

\* hass.bus.async_fire: the bus carries an event
Fire(ev) ==
  /\ listening /\ fired = nEv
  /\ nEv < evLimit /\ nTasks < MaxTasks
  /\ raw' = ev
  /\ fired' = fired + 1
  /\ UNCHANGED <<conf, listening, resetMark, pressed, tasks, isHolding, pressAge,
                 pend, task, nTasks, calls, hist, nEv>>

\* a return of _handle_event or of a profile handler that did nothing
Ignore ==
  /\ nEv' = nEv + 1
  /\ UNCHANGED <<conf, env, pressed, tasks, isHolding, pressAge, pend, task,
                 nTasks, calls, hist>>

\* PicoController._handle_paddle_event
HandlePaddleEvent(button, action) ==
  IF button \notin {"on", "off"} THEN Ignore
  ELSE IF action = "press" THEN HandlePressPaddle(button)
  ELSE HandleReleasePaddle(button)

\* PicoController._handle_five_button_event (light or fan domain)
HandleFiveButtonEvent(button, action) ==
  IF action = "press"
  THEN IF button = "stop" THEN HandlePressFiveStop
       ELSE IF button \in {"on", "off"} THEN HandlePressFiveOnOff(button)
       ELSE IF button \in {"raise", "lower"} THEN HandlePressFive(button)
       ELSE Ignore
  ELSE IF button \in {"raise", "lower"} THEN HandleReleaseFive(button)
       ELSE Ignore

\* the callback _handle_event of PicoController.async_start
HandleEvent ==
  /\ listening /\ nEv < fired
  /\ LET m == MapEventPayload(raw)
     IN IF ~Accepted(raw) THEN Ignore
        ELSE IF variant = "paddle_ctrl" THEN HandlePaddleEvent(m[1], m[2])
        ELSE HandleFiveButtonEvent(m[1], m[2])

\* ------------------------------------------------------------- ramp loops
\* a loop that does not look at the button: `while True`
RampGuard_Always(b) == TRUE

\* the loop condition of every ramp loop: `while self._pressed.get(button)`
RampGuard(b) == pressed[b]

\* the service call of a ramp tick: _call_entity_service(...,
\* continue_on_error=True); an exception of async_call is caught and logged
TickCall(tk) ==
  [tk EXCEPT !.ticks = @ + 1, !.errs = IF faults THEN @ + 1 ELSE @]

\* PicoController._brightness_in_range
BrightnessInRange(st, d) ==
  IF st = NoState THEN FALSE
  ELSE IF st = NoBrightness THEN TRUE
  ELSE IF d > 0 /\ st >= 254 THEN FALSE
  ELSE IF d < 0 /\ st <= 1 THEN FALSE
  ELSE TRUE

\* PicoController._ramp_loop: one pass of the loop, from its head to the sleep
\* (pc "ramp") or to the return (pc "ret"); st is the state read by the pass
RampLoop(tk, st) ==
  IF ~RampGuard(tk.btn) THEN [tk EXCEPT !.pc = "ret", !.rampEnd = "released"]
  ELSE LET ticked == TickCall(tk) IN
       IF ~BrightnessInRange(st, Dir(tk.btn))
       THEN [ticked EXCEPT !.pc = "ret", !.rampEnd = "bound"]
       ELSE [ticked EXCEPT !.pc = "ramp", !.rem = StepTime]

\* a loop that sends the unclamped next brightness at the boundary
Ramp_Unclamped(tk) ==
  LET d == Dir(tk.btn)
      next_b == tk.cur + StepValue * d
  IN IF ~RampGuard(tk.btn) THEN [tk EXCEPT !.pc = "ret", !.rampEnd = "released"]
     ELSE IF tk.steps >= MAX_STEPS THEN [tk EXCEPT !.pc = "ret", !.rampEnd = "cap"]
     ELSE IF (d < 0 /\ next_b <= MinBrightness) \/ (d > 0 /\ next_b >= MaxBrightness)
       THEN [TickCall(tk) EXCEPT !.steps = @ + 1, !.lastB = next_b,
                       !.pc = "ret", !.rampEnd = "bound"]
     ELSE [TickCall(tk) EXCEPT !.steps = @ + 1, !.lastB = next_b,
                     !.cur = next_b, !.pc = "ramp", !.rem = StepTime]

\* a loop without the safety cap
Ramp_NoCap(tk) ==
  LET d == Dir(tk.btn)
      next_b == tk.cur + StepValue * d
  IN IF ~RampGuard(tk.btn) THEN [tk EXCEPT !.pc = "ret", !.rampEnd = "released"]
     ELSE IF d < 0 /\ next_b <= MinBrightness
       THEN [TickCall(tk) EXCEPT !.steps = @ + 1, !.lastB = MinBrightness,
                       !.pc = "ret", !.rampEnd = "bound"]
     ELSE IF d > 0 /\ next_b >= MaxBrightness
       THEN [TickCall(tk) EXCEPT !.steps = @ + 1, !.lastB = MaxBrightness,
                       !.pc = "ret", !.rampEnd = "bound"]
     ELSE [TickCall(tk) EXCEPT !.steps = @ + 1, !.lastB = next_b,
                     !.cur = next_b, !.pc = "ramp", !.rem = StepTime]

\* a loop that lowers to brightness 1 instead of min_brightness
Ramp_LowersToOne(tk) ==
  LET d == Dir(tk.btn)
      next_b == tk.cur + StepValue * d
  IN IF ~RampGuard(tk.btn) THEN [tk EXCEPT !.pc = "ret", !.rampEnd = "released"]
     ELSE IF tk.steps >= MAX_STEPS THEN [tk EXCEPT !.pc = "ret", !.rampEnd = "cap"]
     ELSE IF d < 0 /\ next_b <= 1
       THEN [TickCall(tk) EXCEPT !.steps = @ + 1, !.lastB = 1,
                       !.pc = "ret", !.rampEnd = "bound"]
     ELSE IF d > 0 /\ next_b >= MaxBrightness
       THEN [TickCall(tk) EXCEPT !.steps = @ + 1, !.lastB = MaxBrightness,
                       !.pc = "ret", !.rampEnd = "bound"]
     ELSE [TickCall(tk) EXCEPT !.steps = @ + 1, !.lastB = next_b,
                     !.cur = next_b, !.pc = "ramp", !.rem = StepTime]

\* SharedBehaviors._ramp: one pass of the while loop
Ramp(tk) ==
  LET d == Dir(tk.btn)
      next_b == tk.cur + StepValue * d
  IN IF ~RampGuard(tk.btn) THEN [tk EXCEPT !.pc = "ret", !.rampEnd = "released"]
     ELSE IF tk.steps >= MAX_STEPS THEN [tk EXCEPT !.pc = "ret", !.rampEnd = "cap"]
     ELSE IF d < 0 /\ next_b <= MinBrightness
       THEN [TickCall(tk) EXCEPT !.steps = @ + 1, !.lastB = MinBrightness,
                       !.pc = "ret", !.rampEnd = "bound"]
     ELSE IF d > 0 /\ next_b >= MaxBrightness
       THEN [TickCall(tk) EXCEPT !.steps = @ + 1, !.lastB = MaxBrightness,
                       !.pc = "ret", !.rampEnd = "bound"]
     ELSE [TickCall(tk) EXCEPT !.steps = @ + 1, !.lastB = next_b,
                     !.cur = next_b, !.pc = "ramp", !.rem = StepTime]

\* SharedBehaviors._ramp: the prologue (state read, locals) and the first pass
RampEnter(tk, st) ==
  IF st = NoState THEN [tk EXCEPT !.pc = "ret", !.rampEnd = "nostate", !.entered = TRUE]
  ELSE Ramp([tk EXCEPT !.entered = TRUE, !.steps = 0,
                       !.cur = IF st = NoBrightness THEN 0 ELSE st])

\* a service wrapper that tries the call again after an error
CallEntityService_Retries(tk) ==
  [tk EXCEPT !.taps = IF faults THEN @ + 2 ELSE @ + 1,
             !.errs = IF faults THEN @ + 2 ELSE @]

\* _call_entity_service: one async_call; an exception it raises is caught by
\* `except Exception` and logged, and the wrapper returns normally
CallEntityService(tk) ==
  [tk EXCEPT !.taps = @ + 1, !.errs = IF faults THEN @ + 1 ELSE @]

\* _short_press_on / _short_press_off: one service call
ShortPress(tk) == [CallEntityService(tk) EXCEPT !.pc = "ret"]

\* LightActions._ramp: one pass; _step_brightness issues no call without a state
LARamp(tk, st) ==
  IF ~RampGuard(tk.btn) THEN [tk EXCEPT !.pc = "ret", !.rampEnd = "released"]
  ELSE [tk EXCEPT !.ticks = IF st = NoState THEN @ ELSE @ + 1,
                  !.pc = "ramp", !.rem = StepTime]

\* MediaPlayerActions._hold_lifecycle: one pass of its while loop; _step_volume
\* issues no call without a state
VolumeLoop(tk, st) ==
  IF ~RampGuard(tk.btn) THEN [tk EXCEPT !.pc = "ret", !.rampEnd = "released"]
  ELSE [tk EXCEPT !.ticks = IF st = NoState THEN @ ELSE @ + 1,
                  !.pc = "ramp", !.rem = StepTime]

\* ------------------------------------------------- lifecycle task bodies
\* a lifecycle that takes every press for a tap
PressLifecyclePaddle_AlwaysTap(tk, st) == ShortPress(tk)

\* a lifecycle that does not re-check _pressed after the hold sleep
PressLifecyclePaddle_NoRecheck(tk, st) ==
  IF domain = "light"
    THEN IF variant = "paddle_ctrl" THEN RampLoop([tk EXCEPT !.entered = TRUE], st)
         ELSE RampEnter(tk, st)
  ELSE ShortPress(tk)

\* a lifecycle that ramps on a hold whatever the domain
PressLifecyclePaddle_RampsAll(tk, st) ==
  IF ~pressed[tk.btn] THEN ShortPress(tk)
  ELSE IF variant = "paddle_ctrl" THEN RampLoop([tk EXCEPT !.entered = TRUE], st)
  ELSE RampEnter(tk, st)

\* _press_lifecycle_paddle / PaddleSwitchPico._press_lifecycle, resumed from
\* `await asyncio.sleep(hold_time)`: tap, ramp (lights) or tap-on-hold
PressLifecyclePaddle(tk, st) ==
  IF ~pressed[tk.btn] THEN ShortPress(tk)
  ELSE IF domain = "light"
    THEN IF variant = "paddle_ctrl" THEN RampLoop([tk EXCEPT !.entered = TRUE], st)
         ELSE RampEnter(tk, st)
  ELSE ShortPress(tk)

\* Pico3ButtonRaiseLower._light_lifecycle, resumed from the hold sleep
LightLifecycle(tk, st) ==
  IF ~pressed[tk.btn] THEN [tk EXCEPT !.pc = "ret"] ELSE RampEnter(tk, st)

\* LightActions._hold_lifecycle / _onoff_hold_lifecycle, resumed from the hold
\* sleep; `entered` is _is_holding[button] = True
LAHoldLifecycle(tk, st) ==
  IF ~pressed[tk.btn] THEN [tk EXCEPT !.pc = "ret"]
  ELSE LARamp([tk EXCEPT !.entered = TRUE], st)

\* MediaPlayerActions._hold_lifecycle, resumed from the hold sleep
MPHoldLifecycle(tk, st) ==
  IF ~pressed[tk.btn] THEN [tk EXCEPT !.pc = "ret"]
  ELSE VolumeLoop([tk EXCEPT !.entered = TRUE], st)

\* CoverActions._press_lifecycle / _cover_handle_press, resumed from the hold
\* sleep: hold starts the motion
CoverPressLifecycle(tk) ==
  IF ~pressed[tk.btn] THEN [tk EXCEPT !.pc = "ret"]
  ELSE [tk EXCEPT !.motion = @ + 1, !.pc = "ret"]

\* the body after the hold sleep, by lifecycle
AfterHold(tk, st) ==
  LET x == [tk EXCEPT !.expired = TRUE] IN
  CASE tk.kind = "paddle" -> PressLifecyclePaddle(x, st)
    [] tk.kind = "l3brl" -> LightLifecycle(x, st)
    [] tk.kind = "la" -> LAHoldLifecycle(x, st)
    [] tk.kind = "mp" -> MPHoldLifecycle(x, st)
    [] OTHER -> CoverPressLifecycle(x)

\* a ramp loop that is left when the call of its last tick has raised
AfterStepSleep_LeftOnError(tk, st) ==
  IF tk.errs >= 1 THEN [tk EXCEPT !.pc = "ret", !.rampEnd = "error"]
  ELSE CASE tk.kind = "paddle" -> IF variant = "paddle_ctrl" THEN RampLoop(tk, st) ELSE Ramp(tk)
         [] tk.kind = "five" -> RampLoop(tk, st)
         [] tk.kind = "l3brl" -> Ramp(tk)
         [] tk.kind = "la" -> LARamp(tk, st)
         [] OTHER -> VolumeLoop(tk, st)

\* one pass of the ramp loop the task is sleeping in
AfterStepSleep(tk, st) ==
  CASE tk.kind = "paddle" -> IF variant = "paddle_ctrl" THEN RampLoop(tk, st) ELSE Ramp(tk)
    [] tk.kind = "five" -> RampLoop(tk, st)
    [] tk.kind = "l3brl" -> Ramp(tk)
    [] tk.kind = "la" -> LARamp(tk, st)
    [] OTHER -> VolumeLoop(tk, st)

\* lifecycles whose `finally:` clears _pressed[button] and _tasks[button]
HasFinally(kind) == kind \in {"paddle", "l3brl"}

\* The writes of one task step: the task's own record, the service calls it
\* issued, _is_holding and, when the coroutine returns, its `finally:` block.
Commit(t, tk) ==
  LET b == tk.btn
      clears == tk.pc = "ret" /\ HasFinally(tk.kind)
  IN /\ task' = [task EXCEPT ![t] =
                   IF tk.pc = "ret"
                   THEN [tk EXCEPT !.pc = "done", !.rem = 0, !.cur = 0, !.steps = 0]
                   ELSE tk]
     /\ pressed' = IF clears THEN [pressed EXCEPT ![b] = FALSE] ELSE pressed
     /\ tasks' = IF clears THEN [tasks EXCEPT ![b] = 0] ELSE tasks
     /\ isHolding' = IF tk.kind = "la" /\ tk.entered /\ ~task[t].entered
                       THEN [isHolding EXCEPT ![b] = TRUE] ELSE isHolding
     /\ calls' = [calls EXCEPT ![b].tap = @ + (tk.taps - task[t].taps),
                               ![b].tick = @ + (tk.ticks - task[t].ticks),
                               ![b].motion = @ + (tk.motion - task[t].motion)]

\* ------------------------------------------------------------ task steps
\* first step of a hold-timer lifecycle: runs to `await asyncio.sleep(hold_time)`
TaskStart(t) ==
  /\ task[t].pc = "new" /\ ~task[t].cancelReq
  /\ task[t].kind \in {"paddle", "l3brl", "la", "mp", "cover_press"}
  /\ Commit(t, [task[t] EXCEPT !.pc = "hold", !.rem = HoldTime])
  /\ UNCHANGED <<conf, env, pressAge, pend, nTasks, hist, nEv>>

\* first step of a five-button ramp task: _ramp_loop starts at once
FiveStart(t) ==
  /\ task[t].pc = "new" /\ ~task[t].cancelReq
  /\ task[t].kind = "five"
  /\ \E st \in LightReads : Commit(t, RampLoop([task[t] EXCEPT !.entered = TRUE], st))
  /\ UNCHANGED <<conf, env, pressAge, pend, nTasks, hist, nEv>>

\* the hold timer expires and the task resumes
HoldExpire(t) ==
  /\ task[t].pc = "hold" /\ ~task[t].cancelReq /\ task[t].rem = 0
  /\ \E st \in LightReads : Commit(t, AfterHold(task[t], st))
  /\ UNCHANGED <<conf, env, pressAge, pend, nTasks, hist, nEv>>

\* the step timer expires and the ramp loop makes its next pass (a pass that
\* would issue a tick beyond tickLimit is not explored)
RampWake(t) ==
  /\ task[t].pc = "ramp" /\ ~task[t].cancelReq /\ task[t].rem = 0
  /\ task[t].ticks < tickLimit \/ ~pressed[task[t].btn]
  /\ \E st \in LightReads : Commit(t, AfterStepSleep(task[t], st))
  /\ UNCHANGED <<conf, env, pressAge, pend, nTasks, hist, nEv>>

\* CancelledError is raised in the task: at its sleep (`except CancelledError`,
\* then `finally`), or before its first step (the body never runs)
CancelDeliver(t) ==
  /\ task[t].cancelReq /\ task[t].pc \in {"new", "hold", "ramp"}
  /\ IF task[t].pc = "new"
       THEN /\ task' = [task EXCEPT ![t].pc = "done"]
            /\ UNCHANGED <<pressed, tasks, isHolding, calls>>
       ELSE Commit(t, [task[t] EXCEPT !.pc = "ret",
                         !.rampEnd = IF task[t].pc = "ramp" THEN "cancelled" ELSE @])
  /\ UNCHANGED <<conf, env, pressAge, pend, nTasks, hist, nEv>>

\* a release lifecycle that stops the cover before it steps
ReleaseCalls_StopFirst(elapsed, hasPos) ==
  IF elapsed < HoldTime /\ hasPos THEN <<"stop_cover", "set_cover_position">>
  ELSE <<"stop_cover">>

\* the calls of one release lifecycle: `if elapsed < hold_time and pos is not
\* None: await self._step(...)`, then `await self._stop()`
ReleaseCalls(elapsed, hasPos) ==
  IF elapsed < HoldTime /\ hasPos THEN <<"set_cover_position", "stop_cover">>
  ELSE <<"stop_cover">>

\* a release lifecycle that leaves _pressed as it finds it
CoverReleaseRun_KeepsPressed(t) ==
  /\ task[t].kind = "cover_rel" /\ task[t].pc = "new"
  /\ LET b == task[t].btn
         elapsed == IF pressAge[b] = -1 THEN 0 ELSE pressAge[b]
     IN \E hasPos \in BOOLEAN :
          /\ calls' = [calls EXCEPT
                         ![b].pos = IF elapsed < HoldTime /\ hasPos THEN @ + 1 ELSE @,
                         ![b].stop = @ + 1]
          /\ task' = [task EXCEPT ![t].pc = "done", ![t].sawPos = hasPos,
                         ![t].log = ReleaseCalls(elapsed, hasPos)]
  /\ UNCHANGED <<conf, env, pressed, tasks, isHolding, pressAge, pend, nTasks, hist, nEv>>

\* CoverActions._release_lifecycle / _cover_handle_release: one step; the
\* actions_cover.py and 3BRL versions clear _pressed here, in the task
CoverReleaseRun(t) ==
  /\ task[t].kind = "cover_rel" /\ task[t].pc = "new"
  /\ LET b == task[t].btn
         elapsed == IF pressAge[b] = -1 THEN 0 ELSE pressAge[b]
     IN \E hasPos \in BOOLEAN :
          /\ pressed' = IF variant = "cover_a" THEN [pressed EXCEPT ![b] = FALSE]
                        ELSE pressed
          /\ calls' = [calls EXCEPT
                         ![b].pos = IF elapsed < HoldTime /\ hasPos THEN @ + 1 ELSE @,
                         ![b].stop = @ + 1]
          /\ task' = [task EXCEPT ![t].pc = "done", ![t].sawPos = hasPos,
                         ![t].log = ReleaseCalls(elapsed, hasPos)]
  /\ UNCHANGED <<conf, env, tasks, isHolding, pressAge, pend, nTasks, hist, nEv>>

\* a spawned short-press call runs: LightActions._turn_on / _turn_off
RunTap(b) ==
  /\ pend[b].tap > 0
  /\ pend' = [pend EXCEPT ![b].tap = @ - 1]
  /\ calls' = [calls EXCEPT ![b].tap = @ + 1]
  /\ UNCHANGED <<conf, env, pressed, tasks, isHolding, pressAge, task, nTasks, hist, nEv>>

\* a spawned immediate step runs: the brightness_step_pct call of the 3BRL
\* profile, LightActions._step_brightness, MediaPlayerActions._step_volume
\* (the last two issue no call when the entity has no state)
RunStep(b) ==
  /\ pend[b].step > 0
  /\ pend' = [pend EXCEPT ![b].step = @ - 1]
  /\ calls' = [calls EXCEPT ![b].step =
                 IF variant # "l3brl" /\ ~entity THEN @ ELSE @ + 1]
  /\ UNCHANGED <<conf, env, pressed, tasks, isHolding, pressAge, task, nTasks, hist, nEv>>

\* work the event loop runs before any timer can make progress
Ready(t) ==
  \/ task[t].pc = "new"
  \/ task[t].pc \in {"hold", "ramp"} /\ (task[t].cancelReq \/ task[t].rem = 0)

\* a press is told apart by how long it was held, up to this many ticks
AgeCap == HoldTime + 3 * StepTime

\* the press that created task t is still held and its age still counted
\* (the age of a press is observed for the paddle lifecycles)
Aging(t) ==
  /\ task[t].kind = "paddle" /\ task[t].fromIdle
  /\ task[t].relAge = -1 /\ task[t].age < AgeCap

\* the clock advances when the loop has nothing ready to run; timers count
\* down, and with no timer running the passing of time changes nothing
Tick ==
  /\ \A t \in TaskIds : ~Ready(t)
  /\ \A b \in Buttons : pend[b].tap = 0 /\ pend[b].step = 0
  /\ \/ \E t \in TaskIds : task[t].pc \in {"hold", "ramp"} \/ Aging(t)
     \/ \E b \in Buttons : pressAge[b] >= 0 /\ pressAge[b] < HoldTime
  /\ task' = [t \in TaskIds |->
       [task[t] EXCEPT !.rem = IF task[t].pc \in {"hold", "ramp"} THEN @ - 1 ELSE @,
                       !.age = IF Aging(t) THEN @ + 1 ELSE @]]
  /\ pressAge' = [b \in Buttons |->
       IF pressAge[b] >= 0 /\ pressAge[b] < HoldTime THEN pressAge[b] + 1
       ELSE pressAge[b]]
  /\ UNCHANGED <<conf, env, pressed, tasks, isHolding, pend, nTasks, calls, hist, nEv>>

Next ==
  \/ \E b \in Buttons : HandlePressPaddle(b)
  \/ \E b \in Buttons : HandleReleasePaddle(b)
  \/ \E b \in Buttons : HandlePressFive(b)
  \/ \E b \in Buttons : HandleReleaseFive(b)
  \/ \E b \in Buttons : HandlePress3BRL(b)
  \/ \E b \in Buttons : HandleRelease3BRL(b)
  \/ \E b \in Buttons : LAStartRaiseLower(b)
  \/ \E b \in Buttons : LAStopRaiseLower(b)
  \/ \E b \in Buttons : LAStartOnOffHold(b)
  \/ \E b \in Buttons : LAFinalizeOnOffHold(b)
  \/ \E b \in Buttons : MPStartRaiseLower(b)
  \/ \E b \in Buttons : MPStopRaiseLower(b)
  \/ \E b \in Buttons : CoverPressA(b)
  \/ \E b \in Buttons : CoverReleaseA(b)
  \/ \E b \in Buttons : CoverPressB(b)
  \/ \E b \in Buttons : CoverReleaseB(b)
  \/ \E t \in TaskIds : TaskStart(t)
  \/ \E t \in TaskIds : FiveStart(t)
  \/ \E t \in TaskIds : HoldExpire(t)
  \/ \E t \in TaskIds : RampWake(t)
  \/ \E t \in TaskIds : CancelDeliver(t)
  \/ \E t \in TaskIds : CoverReleaseRun(t)
  \/ \E b \in Buttons : RunTap(b)
  \/ \E b \in Buttons : RunStep(b)
  \/ Tick

Spec == Init /\ [][Next]_vars

\* ---------------------------------------------------------- configuration
\* raw integers of a YAML entry, around every limit the parsers know
RawValues == {-1, 0, 1, 25, 26, 49, 50, 99, 100, 101, 2000, 2001}

Clamp(lo, hi, v) == IF v < lo THEN lo ELSE IF v > hi THEN hi ELSE v

\* pico_link config.py _normalize_int, for an integer raw_val
NormalizeInt(raw_val, default, min_val, max_val) ==
  IF raw_val = 0 THEN default ELSE Clamp(min_val, max_val, raw_val)

\* pico_link parse_pico_config: hold_time_ms, step_time_ms, light_step_pct
ParseLink(e) ==
  [e EXCEPT !.status = "built",
            !.hold = NormalizeInt(e.hold, 400, 100, 2000),
            !.step = NormalizeInt(e.step, 750, 100, 2000),
            !.pct = NormalizeInt(e.pct, 10, 1, 25)]

\* pico_connector parse_pico_config: the values are taken as given, or
\* ValueError is raised
ParseConnector(e) ==
  IF e.hold < 50 \/ ~(1 <= e.pct /\ e.pct <= 100) \/ e.step < 50
  THEN [e EXCEPT !.status = "rejected"]
  ELSE [e EXCEPT !.status = "built"]

\* async_setup of pico_link: parse the entry, construct the controller
SetupLink ==
  /\ cfg.module = "pico_link" /\ cfg.status = "raw"
  /\ cfg' = ParseLink(cfg)
  /\ UNCHANGED <<variant, domain, focus, entity, stepPct, faults, evLimit, tickLimit,
                 fan, setup, dev, env, pressed, tasks, isHolding, pressAge, pend, task, nTasks,
                 calls, hist, nEv>>

\* async_setup of pico_connector: parse the entry; on ValueError the entry is
\* skipped, else the controller is constructed
SetupConnector ==
  /\ cfg.module = "pico_connector" /\ cfg.status = "raw"
  /\ cfg' = ParseConnector(cfg)
  /\ UNCHANGED <<variant, domain, focus, entity, stepPct, faults, evLimit, tickLimit,
                 fan, setup, dev, env, pressed, tasks, isHolding, pressAge, pend, task, nTasks,
                 calls, hist, nEv>>

InitConfig ==
  /\ variant = "paddle_ctrl"
  /\ domain = "light"
  /\ focus = {"on"}
  /\ entity = TRUE
  /\ stepPct = StepPct
  /\ faults = FALSE
  /\ evLimit = 0
  /\ tickLimit = 0
  /\ \E m \in {"pico_link", "pico_connector"} : \E h, s, p \in RawValues :
       cfg = RawEntry(m, h, s, p)
  /\ fan = NoFan /\ setup = NoSetup /\ dev = NoDevice
  /\ listening = FALSE
  /\ resetMark = 0
  /\ raw = NoEvent
  /\ fired = 0
  /\ pressed = [b \in Buttons |-> FALSE]
  /\ tasks = [b \in Buttons |-> 0]
  /\ isHolding = [b \in Buttons |-> FALSE]
  /\ pressAge = [b \in Buttons |-> -1]
  /\ pend = [b \in Buttons |-> [tap |-> 0, step |-> 0]]
  /\ task = [t \in TaskIds |-> NoTask]
  /\ nTasks = 0
  /\ calls = [b \in Buttons |->
               [tap |-> 0, tick |-> 0, step |-> 0, motion |-> 0, pos |-> 0, stop |-> 0]]
  /\ hist = [b \in Buttons |-> [nPress |-> 0, nRel |-> 0, relSince |-> FALSE]]
  /\ nEv = 0

NextConfig == SetupLink \/ SetupConnector

SpecConfig == InitConfig /\ [][NextConfig]_vars

\* a run in which no button event is handled: the controller stays as
\* constructed
InitQuiet ==
  /\ variant = "paddle_ctrl"
  /\ domain = "light"
  /\ focus = {"on"}
  /\ entity = TRUE
  /\ stepPct = StepPct
  /\ faults = FALSE
  /\ evLimit = 0
  /\ tickLimit = 0
  /\ InitController

\* the frame of a step outside the controller
ControllerUnchanged ==
  UNCHANGED <<variant, domain, focus, entity, stepPct, faults, evLimit, tickLimit,
              env, pressed, tasks, isHolding, pressAge, pend, task, nTasks,
              calls, hist, nEv>>

\* ------------------------------------------------------- fan speed ladder
\* percentage_step attributes, in thirds of a percent: missing or not
\* positive (0), 20, 25, 33, 33 1/3, 50, 100, 150
PercentageSteps == {0, 60, 75, 99, 100, 150, 300, 450}

\* _get_current_pct: None (-1) or a percentage
FanPercents == {-1, 0, 10, 25, 33, 50, 66, 99, 100}

RECURSIVE BuildLadder(_, _, _)
\* `while pct < 100: ladder.append(int(pct)); pct += step`, then append(100)
BuildLadder(ladder, pct, step) ==
  IF pct < 300 THEN BuildLadder(Append(ladder, pct \div 3), pct + step, step)
  ELSE Append(ladder, 100)

\* FanActions._get_speed_ladder
GetSpeedLadder(f) ==
  IF ~f.hasState THEN << >>
  ELSE IF f.pstep <= 0 THEN <<0, 100>>
  ELSE BuildLadder(<<0>>, f.pstep, f.pstep)

Abs(x) == IF x < 0 THEN -x ELSE x

\* min(range(len(ladder)), key=lambda i: abs(ladder[i] - current)): the first
\* closest index (1-based here)
ClosestIdx(ladder, current) ==
  CHOOSE i \in 1..Len(ladder) :
    /\ \A j \in 1..Len(ladder) : Abs(ladder[i] - current) <= Abs(ladder[j] - current)
    /\ \A j \in 1..(i - 1) : Abs(ladder[j] - current) > Abs(ladder[i] - current)

\* FanActions._step: the percentage it sets, -1 when it returns without a call
StepPercentage(f) ==
  LET ladder == GetSpeedLadder(f) IN
  IF ladder = << >> \/ f.cur = -1 THEN -1
  ELSE IF f.cur = 0 /\ f.dir > 0 THEN ladder[2]
  ELSE LET idx == ClosestIdx(ladder, f.cur)
           hi == IF idx + f.dir < Len(ladder) THEN idx + f.dir ELSE Len(ladder)
           new_idx == IF hi > 1 THEN hi ELSE 1
       IN ladder[new_idx]

\* one call of FanActions._step
FanStep ==
  /\ fan.status = "idle"
  /\ fan' = [fan EXCEPT !.status = "stepped", !.ladder = GetSpeedLadder(fan),
                         !.sent = StepPercentage(fan)]
  /\ UNCHANGED <<cfg, setup, dev>>
  /\ ControllerUnchanged

InitFan ==
  /\ InitQuiet
  /\ cfg = RawEntry("none", 0, 0, 0) /\ setup = NoSetup /\ dev = NoDevice
  /\ \E h \in BOOLEAN : \E ps \in PercentageSteps : \E c \in FanPercents :
       \E d \in {-1, 1} :
         fan = [NoFan EXCEPT !.status = "idle", !.hasState = h, !.pstep = ps,
                             !.cur = c, !.dir = d]

NextFan == FanStep

SpecFan == InitFan /\ [][NextFan]_vars

\* ------------------------------------------------------------ async_setup
\* device entries of one YAML configuration: TRUE for an entry that
\* parse_pico_config accepts, FALSE for one it rejects with ValueError
EntryLists ==
  UNION {[1..n -> BOOLEAN] : n \in 0..MaxEntries}

\* one pass of `for idx, device_raw in enumerate(...)`: ValueError is logged
\* and the entry skipped, else the controller is constructed, started and kept
SetupEntry ==
  /\ setup.status = "setup" /\ setup.idx <= Len(setup.entries)
  /\ setup' = IF setup.entries[setup.idx]
                THEN [setup EXCEPT !.idx = @ + 1,
                                   !.controllers = Append(@, setup.idx),
                                   !.stops = Append(@, 0)]
                ELSE [setup EXCEPT !.idx = @ + 1]
  /\ UNCHANGED <<cfg, fan, dev>>
  /\ ControllerUnchanged

\* after the loop: `if not controllers: return True`, else the stop listener
\* is registered with async_listen_once
SetupFinish ==
  /\ setup.status = "setup" /\ setup.idx > Len(setup.entries)
  /\ setup' = [setup EXCEPT !.status = "ready",
                            !.registered = (setup.controllers # << >>)]
  /\ UNCHANGED <<cfg, fan, dev>>
  /\ ControllerUnchanged

\* a stop listener that stays registered after it has run
HaStop_ListensOn ==
  /\ setup.status = "ready" /\ setup.fires < MaxEvents
  /\ setup' = IF setup.registered
                THEN [setup EXCEPT !.fires = @ + 1,
                                   !.stops = [i \in 1..Len(@) |-> @[i] + 1]]
                ELSE [setup EXCEPT !.fires = @ + 1]
  /\ UNCHANGED <<cfg, fan, dev>>
  /\ ControllerUnchanged

\* EVENT_HOMEASSISTANT_STOP fires: _async_stop calls async_stop of every
\* controller; async_listen_once has removed the listener
HaStop ==
  /\ setup.status = "ready" /\ setup.fires < MaxEvents
  /\ setup' = IF setup.registered
                THEN [setup EXCEPT !.fires = @ + 1, !.registered = FALSE,
                                   !.stops = [i \in 1..Len(@) |-> @[i] + 1]]
                ELSE [setup EXCEPT !.fires = @ + 1]
  /\ UNCHANGED <<cfg, fan, dev>>
  /\ ControllerUnchanged

InitSetup ==
  /\ InitQuiet
  /\ cfg = RawEntry("none", 0, 0, 0) /\ fan = NoFan /\ dev = NoDevice
  /\ \E m \in {"pico_link", "pico_connector"} : \E es \in EntryLists :
       setup = [NoSetup EXCEPT !.status = "setup", !.module = m,
                               !.entries = es, !.idx = 1]

NextSetup == SetupEntry \/ SetupFinish \/ HaStop

SpecSetup == InitSetup /\ [][NextSetup]_vars

\* ----------------------------------------------------- PicoConfig.validate
VALID_PICO_TYPES == {"P2B", "2B", "3BRL", "4B"}

\* sum(domains): how many of covers, fans, lights, media_players, switches
\* are non-empty
ActiveDomains(d) == Cardinality({i \in 1..5 : d.domains[i]})

\* a validation that lets several domains through
Validate_AllowsMany(d) ==
  IF d.type \notin VALID_PICO_TYPES THEN "rejected"
  ELSE IF d.type = "4B"
    THEN IF ActiveDomains(d) # 0 THEN "rejected"
         ELSE IF d.buttons # "nonempty" THEN "rejected"
         ELSE "accepted"
  ELSE IF ActiveDomains(d) = 0 THEN "rejected"
  ELSE "accepted"

\* PicoConfig.validate: "rejected" where it raises ValueError; buttons is
\* "notdict", "empty" or "nonempty"
Validate(d) ==
  IF d.type \notin VALID_PICO_TYPES THEN "rejected"
  ELSE IF d.type = "4B"
    THEN IF ActiveDomains(d) # 0 THEN "rejected"
         ELSE IF d.buttons # "nonempty" THEN "rejected"
         ELSE "accepted"
  ELSE IF ActiveDomains(d) = 0 THEN "rejected"
  ELSE IF ActiveDomains(d) > 1 THEN "rejected"
  ELSE "accepted"

\* conf.validate() at the end of parse_pico_config
ValidateStep ==
  /\ dev.status = "given"
  /\ dev' = [dev EXCEPT !.status = Validate(dev)]
  /\ UNCHANGED <<cfg, fan, setup>>
  /\ ControllerUnchanged

InitValidate ==
  /\ InitQuiet
  /\ cfg = RawEntry("none", 0, 0, 0) /\ fan = NoFan /\ setup = NoSetup
  /\ \E ty \in VALID_PICO_TYPES \cup {"5B"} : \E ds \in [1..5 -> BOOLEAN] :
       \E bs \in {"notdict", "empty", "nonempty"} :
         dev = [status |-> "given", type |-> ty, domains |-> ds, buttons |-> bs]

SpecValidate == InitValidate /\ [][ValidateStep]_vars

\* ------------------------------------------------------ fair scheduling
\* what the event loop does by itself: ready tasks run, timers expire
Scheduler ==
  \/ \E t \in TaskIds : TaskStart(t)
  \/ \E t \in TaskIds : FiveStart(t)
  \/ \E t \in TaskIds : HoldExpire(t)
  \/ \E t \in TaskIds : RampWake(t)
  \/ \E t \in TaskIds : CancelDeliver(t)
  \/ \E t \in TaskIds : CoverReleaseRun(t)
  \/ \E b \in Buttons : RunTap(b)
  \/ \E b \in Buttons : RunStep(b)
  \/ Tick

\* every implementation; a held button is followed for one ramp tick
InitFair ==
  /\ variant \in Variants
  /\ domain \in DomainsOf(variant)
  /\ focus \in {{b} : b \in ButtonsOf(variant)}
  /\ entity \in BOOLEAN
  /\ stepPct = StepPct
  /\ faults = FALSE
  /\ evLimit = MaxEvents
  /\ tickLimit = 1
  /\ InitState

\* the event loop never stops while it has work or a running timer
SpecFair == InitFair /\ [][Next]_vars /\ WF_vars(Scheduler)

\* ------------------------------------------- a button held and never released
\* One Press and no Release; the ramp loops are followed past MAX_STEPS ticks.
\* conf.step_pct is used by the loops as read: 0 is the step size with which
\* SharedBehaviors._ramp never reaches a boundary.
InitHeld ==
  /\ variant \in {"paddle_ctrl", "paddle_p2b", "five", "l3brl", "la_rl", "mp"}
  /\ domain = IF variant = "mp" THEN "media_player" ELSE "light"
  /\ focus \in {{b} : b \in ButtonsOf(variant)}
  /\ entity = TRUE
  /\ stepPct \in {0, 1, StepPct}
  /\ faults = FALSE
  /\ evLimit = 1
  /\ tickLimit = MAX_STEPS + 1
  /\ InitState

NextHeld ==
  \/ \E b \in Buttons : HandlePressPaddle(b)
  \/ \E b \in Buttons : HandlePressFive(b)
  \/ \E b \in Buttons : HandlePress3BRL(b)
  \/ \E b \in Buttons : LAStartRaiseLower(b)
  \/ \E b \in Buttons : MPStartRaiseLower(b)
  \/ \E t \in TaskIds : TaskStart(t)
  \/ \E t \in TaskIds : FiveStart(t)
  \/ \E t \in TaskIds : HoldExpire(t)
  \/ \E t \in TaskIds : RampWake(t)
  \/ \E b \in Buttons : RunStep(b)
  \/ Tick

SpecHeld == InitHeld /\ [][NextHeld]_vars

\* ------------------------------------------------- event sequences with a reset
InitStop ==
  /\ variant \in {"paddle_ctrl", "five", "mp", "cover_b"}
  /\ domain \in DomainsOf(variant)
  /\ focus \in {{b} : b \in ButtonsOf(variant)}
  /\ entity \in BOOLEAN
  /\ stepPct = StepPct
  /\ faults = FALSE
  /\ evLimit = MaxEvents
  /\ tickLimit = MaxTicks
  /\ InitState

NextStop ==
  \/ \E b \in Buttons : HandlePressPaddle(b)
  \/ \E b \in Buttons : HandleReleasePaddle(b)
  \/ \E b \in Buttons : HandlePressFive(b)
  \/ \E b \in Buttons : HandleReleaseFive(b)
  \/ \E b \in Buttons : MPStartRaiseLower(b)
  \/ \E b \in Buttons : MPStopRaiseLower(b)
  \/ \E b \in Buttons : CoverPressB(b)
  \/ \E b \in Buttons : CoverReleaseB(b)
  \/ AsyncStop
  \/ ResetState
  \/ \E t \in TaskIds : TaskStart(t)
  \/ \E t \in TaskIds : FiveStart(t)
  \/ \E t \in TaskIds : HoldExpire(t)
  \/ \E t \in TaskIds : RampWake(t)
  \/ \E t \in TaskIds : CancelDeliver(t)
  \/ \E t \in TaskIds : CoverReleaseRun(t)
  \/ \E b \in Buttons : RunStep(b)
  \/ Tick

SpecStop == InitStop /\ [][NextStop]_vars

\* -------------------------------------------------- events as the bus carries them
\* the callback runs within async_fire: nothing else runs in between
Quiet == fired = nEv

InitEvents ==
  /\ variant \in {"paddle_ctrl", "five"}
  /\ domain = "light"
  /\ focus = IF variant = "five" THEN Buttons ELSE {"on", "off"}
  /\ entity \in BOOLEAN
  /\ stepPct = StepPct
  /\ faults = FALSE
  /\ evLimit = MaxEvents - 1
  /\ tickLimit = MaxTicks
  /\ InitState

NextEvents ==
  \/ \E d \in Devices, bt \in ButtonTypes, a \in ActionNames :
       Fire([device |-> d, button_type |-> bt, action |-> a])
  \/ HandleEvent
  \/ Quiet /\ \E t \in TaskIds : TaskStart(t)
  \/ Quiet /\ \E t \in TaskIds : FiveStart(t)
  \/ Quiet /\ \E t \in TaskIds : HoldExpire(t)
  \/ Quiet /\ \E t \in TaskIds : RampWake(t)
  \/ Quiet /\ \E t \in TaskIds : CancelDeliver(t)
  \/ Quiet /\ \E b \in Buttons : RunTap(b)
  \/ Quiet /\ Tick

SpecEvents == InitEvents /\ [][NextEvents]_vars

\* --------------------------------------------- events on several buttons
InitMulti ==
  /\ variant \in {"paddle_ctrl", "five", "l3brl"}
  /\ domain = "light"
  /\ focus = IF variant = "paddle_ctrl" THEN {"on", "off"} ELSE {"raise", "lower", "stop"}
  /\ entity \in BOOLEAN
  /\ stepPct = StepPct
  /\ faults = FALSE
  /\ evLimit = MaxEvents - 1
  /\ tickLimit = MaxTicks
  /\ InitState

NextMulti ==
  \/ \E b \in Buttons : HandlePressPaddle(b)
  \/ \E b \in Buttons : HandleReleasePaddle(b)
  \/ \E b \in Buttons \ {"stop"} : HandlePressFive(b)
  \/ \E b \in Buttons \ {"stop"} : HandleReleaseFive(b)
  \/ HandlePressFiveStop
  \/ \E b \in Buttons \ {"stop"} : HandlePress3BRL(b)
  \/ \E b \in Buttons \ {"stop"} : HandleRelease3BRL(b)
  \/ HandleStop3BRL
  \/ \E t \in TaskIds : TaskStart(t)
  \/ \E t \in TaskIds : FiveStart(t)
  \/ \E t \in TaskIds : HoldExpire(t)
  \/ \E t \in TaskIds : RampWake(t)
  \/ \E t \in TaskIds : CancelDeliver(t)
  \/ \E b \in Buttons : RunStep(b)
  \/ Tick

SpecMulti == InitMulti /\ [][NextMulti]_vars

\* --------------------------------------------- every service call raises
InitFault ==
  /\ variant \in Paddle
  /\ domain \in DomainsOf(variant)
  /\ focus \in {{b} : b \in ButtonsOf(variant)}
  /\ entity \in BOOLEAN
  /\ stepPct = StepPct
  /\ faults = TRUE
  /\ evLimit = MaxEvents
  /\ tickLimit = MaxTicks
  /\ InitState

NextFault ==
  \/ \E b \in Buttons : HandlePressPaddle(b)
  \/ \E b \in Buttons : HandleReleasePaddle(b)
  \/ \E t \in TaskIds : TaskStart(t)
  \/ \E t \in TaskIds : HoldExpire(t)
  \/ \E t \in TaskIds : RampWake(t)
  \/ \E t \in TaskIds : CancelDeliver(t)
  \/ Tick

SpecFault == InitFault /\ [][NextFault]_vars

\* ------------------------- one raise/lower button of the 3BRL profile,
\* pressed repeatedly: one event more than in the other specifications
InitRepress ==
  /\ variant = "l3brl"
  /\ domain = "light"
  /\ focus \in {{b} : b \in ButtonsOf(variant)}
  /\ entity \in BOOLEAN
  /\ stepPct = StepPct
  /\ faults = FALSE
  /\ evLimit = MaxEvents + 1
  /\ tickLimit = 1
  /\ InitState

NextRepress ==
  \/ \E b \in Buttons : HandlePress3BRL(b)
  \/ \E b \in Buttons : HandleRelease3BRL(b)
  \/ \E t \in TaskIds : TaskStart(t)
  \/ \E t \in TaskIds : HoldExpire(t)
  \/ \E t \in TaskIds : RampWake(t)
  \/ \E t \in TaskIds : CancelDeliver(t)
  \/ \E b \in Buttons : RunStep(b)
  \/ Tick

SpecRepress == InitRepress /\ [][NextRepress]_vars

\* ------------------- a raise/lower button and the stop button of the 3BRL
\* profile on a light
InitStopButton ==
  /\ variant = "l3brl"
  /\ domain = "light"
  /\ focus \in {{b, "stop"} : b \in ButtonsOf(variant)}
  /\ entity \in BOOLEAN
  /\ stepPct = StepPct
  /\ faults = FALSE
  /\ evLimit = MaxEvents
  /\ tickLimit = 1
  /\ InitState

NextStopButton ==
  \/ \E b \in Buttons \ {"stop"} : HandlePress3BRL(b)
  \/ \E b \in Buttons \ {"stop"} : HandleRelease3BRL(b)
  \/ HandleStop3BRL
  \/ \E t \in TaskIds : TaskStart(t)
  \/ \E t \in TaskIds : HoldExpire(t)
  \/ \E t \in TaskIds : RampWake(t)
  \/ \E t \in TaskIds : CancelDeliver(t)
  \/ \E b \in Buttons : RunStep(b)
  \/ Tick

SpecStopButton == InitStopButton /\ [][NextStopButton]_vars

\* ================================================================ claims
PaddleTask(t) == variant \in Paddle /\ task[t].kind = "paddle"

\* the bound SharedBehaviors._ramp clamps to, by button
BoundOf(b) == IF Dir(b) > 0 THEN MaxBrightness ELSE MinBrightness

\* tasks that run SharedBehaviors._ramp
UsesRamp(t) ==
  \/ task[t].kind = "l3brl"
  \/ task[t].kind = "paddle" /\ variant = "paddle_p2b"

\* C1: paddle on/off buttons: in every reachable state each button has at
\* most one lifecycle task that was created and has neither finished nor been
\* cancelled, under any sequence of Press and Release, duplicates included.
C1_OneLiveLifecyclePaddle ==
  variant \in Paddle => \A b \in Buttons : Cardinality(LiveOf(b)) <= 1

\* C2: paddle: when a Press superseded a still-running lifecycle task, the
\* step in which the cancelled task finishes unwinding leaves pressed[button]
\* True and tasks[button] referring to the task that Press created.
C2_CancelledTaskLeavesPress ==
  [][\A t \in TaskIds :
       ( /\ PaddleTask(t)
         /\ task[t].cancelReq /\ task[t].pc # "done" /\ task'[t].pc = "done"
         /\ pressed[task[t].btn]
         /\ tasks[task[t].btn] # 0 /\ tasks[task[t].btn] # t )
       => /\ pressed'[task[t].btn]
          /\ tasks'[task[t].btn] = tasks[task[t].btn]]_vars

\* C3: paddle, light domain: every Press whose hold timer expires with no
\* Release of the button handled before leads to ramping and to no
\* short-press, also when it arrived while an earlier lifecycle was running.
C3_HeldPressRamps ==
  \A t \in TaskIds :
    (PaddleTask(t) /\ domain = "light" /\ task[t].expired /\ ~task[t].relBefore)
    => task[t].taps = 0 /\ task[t].entered

\* C4: from an idle on/off button of the paddle profile, one Press and one
\* Release handled before the hold timer expires, and no other event for the
\* button, give exactly one short-press action and no ramp tick.
C4_TapIsOneShortPress ==
  \A b \in Buttons :
    ( /\ variant \in Paddle \cup {"la_onoff"}
      /\ hist[b].nPress = 1 /\ hist[b].nRel = 1
      /\ task[1].btn = b /\ task[1].fromIdle /\ task[1].relBefore )
    => /\ calls[b].tick = 0
       /\ calls[b].tap + pend[b].tap <= 1
       /\ (task[1].pc = "done" /\ pend[b].tap = 0 => calls[b].tap = 1)

C4_Witness ==
  \E b \in Buttons :
    /\ variant \in Paddle \cup {"la_onoff"}
    /\ hist[b].nPress = 1 /\ hist[b].nRel = 1
    /\ task[1].btn = b /\ task[1].fromIdle /\ task[1].relBefore
    /\ task[1].pc = "done" /\ calls[b].tap = 1

C6_NoTickAfterRelease ==
  [][\A b \in Buttons :
       (hist[b].relSince /\ hist'[b].relSince) => calls'[b].tick = calls[b].tick]_vars

C6_Witness ==
  \E t \in TaskIds :
    /\ task[t].kind \in {"paddle", "five", "l3brl", "la", "mp"}
    /\ task[t].ticks > 0 /\ task[t].pc = "done"
    /\ task[t].rampEnd \in {"released", "cancelled"}
    /\ hist[task[t].btn].relSince

\* a release handler is handling a Release of button b in this step
ReleaseOf(b) == hist'[b].nRel = hist[b].nRel + 1

C8_PressSupersedes ==
  variant \in {"la_rl", "mp", "l3brl"}
    => \A b \in Buttons : Cardinality(LiveOf(b)) <= 1

\* C9: in every reachable state every live hold-timer or ramp task of a
\* button is the task its slot tasks[button] refers to.
C9_LiveTaskIsTracked ==
  \A t \in TaskIds :
    (Live(t) /\ task[t].kind # "cover_rel") => tasks[task[t].btn] = t

\* C10: SharedBehaviors._ramp stops by itself at the boundary: the pass whose
\* next brightness would reach the bound (255 raising, min_brightness
\* lowering) sets exactly the bound and ends the loop, every earlier call is
\* strictly short of the bound, and no tick follows.
C10_RampStopsAtBound ==
  [][\A t \in TaskIds :
       (UsesRamp(t) /\ task'[t].ticks > 0)
       => /\ task'[t].rampEnd = "bound"
               => /\ task'[t].lastB = BoundOf(task[t].btn)
                  /\ task'[t].pc = "done"
          /\ task'[t].pc = "ramp"
               => IF Dir(task[t].btn) > 0 THEN task'[t].lastB < MaxBrightness
                  ELSE task'[t].lastB > MinBrightness
          /\ task[t].rampEnd = "bound" => task'[t].ticks = task[t].ticks]_vars

C10_Witness ==
  \E t \in TaskIds :
    /\ UsesRamp(t) /\ task[t].rampEnd = "bound" /\ task[t].ticks >= 2
    /\ task[t].lastB = BoundOf(task[t].btn) /\ ~task[t].relBefore
    /\ hist[task[t].btn].nRel = 0

\* tasks that run a ramp loop other than SharedBehaviors._ramp
UsesOtherLoop(t) ==
  \/ task[t].kind \in {"five", "la", "mp"}
  \/ task[t].kind = "paddle" /\ variant = "paddle_ctrl"

\* C11: one session of SharedBehaviors._ramp issues at most MAX_STEPS
\* brightness calls, whatever the step size, the start brightness and the
\* direction, also when the button is never released.
C11_RampCapped ==
  \A t \in TaskIds : UsesRamp(t) => task[t].ticks <= MAX_STEPS

C11_Witness ==
  \E t \in TaskIds :
    /\ UsesRamp(t) /\ task[t].rampEnd = "cap" /\ task[t].pc = "done"
    /\ task[t].ticks = MAX_STEPS /\ hist[task[t].btn].nRel = 0

\* C12: every other ramp loop (PicoController._ramp_loop, LightActions._ramp,
\* the loop of MediaPlayerActions._hold_lifecycle) stops after a bounded
\* number of ticks, the cap MAX_STEPS, when no Release is delivered and no
\* boundary is reported.
C12_OtherLoopsCapped ==
  \A t \in TaskIds : UsesOtherLoop(t) => task[t].ticks <= MAX_STEPS

\* no Press of b is waiting for its Release
NoUnreleasedPress(b) == hist[b].nPress = 0 \/ hist[b].relSince

\* C13: PicoController (paddle on/off, five-button raise/lower): a Release
\* handled for a button with no preceding unreleased Press leaves pressed and
\* tasks of every button unchanged, cancels nothing and issues no call.
C13_IdleReleaseIsNoOp ==
  [][\A b \in Buttons :
       (variant \in {"paddle_ctrl", "five"} /\ ReleaseOf(b) /\ NoUnreleasedPress(b))
       => /\ pressed' = pressed /\ tasks' = tasks
          /\ calls' = calls /\ pend' = pend /\ nTasks' = nTasks
          /\ \A t \in TaskIds : task'[t].cancelReq = task[t].cancelReq]_vars

C13_Witness ==
  \E b \in Buttons :
    /\ variant \in {"paddle_ctrl", "five"}
    /\ hist[b].nPress = 1 /\ hist[b].nRel = 2 /\ hist[b].relSince

\* C14: LightActions with the P2B profile: the tap actions issued or spawned
\* for a button never outnumber the Press events handled for it, so a Release
\* with no preceding unreleased Press issues no action.
C14_TapsNeverExceedPresses ==
  variant = "la_onoff" =>
    \A b \in Buttons : calls[b].tap + pend[b].tap <= hist[b].nPress

\* C15: cover raise/lower: while no Press of a button has been handled, no
\* release work is started for it and neither set_cover_position nor
\* stop_cover is called for it.
C15_CoverReleaseWithoutPress ==
  variant \in {"cover_a", "cover_b"} =>
    \A b \in Buttons :
      hist[b].nPress = 0 =>
        /\ calls[b].pos = 0 /\ calls[b].stop = 0
        /\ \A t \in TaskIds : ~(task[t].kind = "cover_rel" /\ task[t].btn = b)

\* C16: once PicoController.async_stop has returned, pressed[b] is False and
\* tasks[b] is None for every button, in that state and in every later one,
\* also after the cancelled tasks have run their cancellation handlers.
C16_StoppedStaysReset ==
  ~listening => \A b \in Buttons : ~pressed[b] /\ tasks[b] = 0

C16_Witness ==
  /\ ~listening
  /\ \E t \in TaskIds :
       /\ t <= resetMark /\ task[t].cancelReq /\ Done(t)
       /\ hist[task[t].btn].nPress = 1 /\ hist[task[t].btn].nRel = 0

\* a lifecycle task with a hold timer or a ramp loop, created before the reset
BeforeReset(t) ==
  /\ t <= resetMark
  /\ task[t].kind \in {"paddle", "five", "mp", "cover_press"}

\* C17: after a Reset has returned, a step of a hold-timer or ramp task that
\* was created before the Reset issues no service call and changes neither
\* pressed nor tasks.
C17_ResetSilencesOldTasks ==
  [][\A t \in TaskIds :
       (BeforeReset(t) /\ task'[t].pc # task[t].pc)
       => calls' = calls /\ pressed' = pressed /\ tasks' = tasks]_vars

\* the controller's state that an event handler can touch
Touched == <<pressed, tasks, nTasks, pend, calls, hist,
             [t \in TaskIds |-> task[t].cancelReq]>>

\* _handle_event has returned from the event the bus carried
Handled == nEv' = nEv + 1

\* the action is not literally 'press' or 'release'
LiteralInvalid(data) ==
  \/ data.device # DeviceId
  \/ data.action \notin {"press", "release"}
  \/ data.button_type = Missing \/ data.action = Missing
  \/ data.button_type \notin SUPPORTED_BUTTONS
  \/ variant = "paddle_ctrl" /\ data.button_type \notin {"on", "off"}

\* C18 as stated: an event of another device, with an action other than
\* 'press' / 'release', with a missing button_type or action, or with a button
\* outside SUPPORTED_BUTTONS or unused by the profile, changes nothing.
C18_LiteralInvalidDropped ==
  [][(Handled /\ LiteralInvalid(raw)) => UNCHANGED Touched]_vars

\* invalid after the lower-casing of _map_event_payload
Invalid(data) ==
  \/ data.device # DeviceId
  \/ Falsy(data.button_type) \/ Falsy(data.action)
  \/ Lower(data.action) \notin {"press", "release"}
  \/ Lower(data.button_type) \notin SUPPORTED_BUTTONS
  \/ variant = "paddle_ctrl" /\ Lower(data.button_type) \notin {"on", "off"}
  \/ variant = "five" /\ Lower(data.button_type) \notin Buttons

\* C18 (amended): an event of another device, with a missing or empty
\* button_type or action, with an action that is not 'press' / 'release' after
\* lower-casing, or with a lower-cased button outside SUPPORTED_BUTTONS or
\* unused by the profile, changes no pressed flag and no slot, creates and
\* cancels no task and issues no call.
C18_InvalidDropped ==
  [][(Handled /\ Invalid(raw)) => UNCHANGED Touched]_vars

\* an invalid event was handled while a lifecycle was in flight
C18_Witness ==
  /\ Invalid(raw) /\ fired = nEv /\ fired >= 2
  /\ \E b \in Buttons : pressed[b] /\ tasks[b] # 0 /\ Live(tasks[b])

PressOf(b) == hist'[b].nPress = hist[b].nPress + 1

\* the step leaves button x alone: its flag, its slot, its tasks uncancelled
Untouched(x) ==
  /\ pressed'[x] = pressed[x] /\ tasks'[x] = tasks[x]
  /\ \A t \in TaskIds : task[t].btn = x => task'[t].cancelReq = task[t].cancelReq

\* C19 as stated: handling a Press or Release of one button leaves the
\* pressed flag and the task of every other button unchanged and uncancelled,
\* in every profile.
C19_ButtonsIndependent ==
  [][\A b \in Buttons : \A x \in Buttons \ {b} :
       (PressOf(b) \/ ReleaseOf(b)) => Untouched(x)]_vars

\* the presses that reach over to another button: stop, and in the
\* five-button profile raise and lower, release raise and lower
ReachesOver(b, x) ==
  /\ PressOf(b) /\ x \in {"raise", "lower"}
  /\ b = "stop" \/ (variant = "five" /\ b \in {"raise", "lower"})

\* C19 (amended): handling a Press or Release of one button leaves every
\* other button unchanged and uncancelled, except that a Press of stop, and in
\* the five-button profile a Press of raise or lower, may clear the pressed
\* flags and cancel the tasks of raise and lower.
C19_IndependentButForStop ==
  [][\A b \in Buttons : \A x \in Buttons \ {b} :
       ((PressOf(b) \/ ReleaseOf(b)) /\ ~ReachesOver(b, x)) => Untouched(x)]_vars

\* two buttons with a live lifecycle each, the second pressed after the first
C19_Witness ==
  \E b \in Buttons : \E x \in Buttons \ {b} :
    /\ pressed[b] /\ pressed[x]
    /\ tasks[b] # 0 /\ tasks[x] # 0 /\ tasks[x] < tasks[b]
    /\ Live(tasks[b]) /\ Live(tasks[x])

\* the step in which task t makes its short-press call
TapStep(t) == task'[t].taps > task[t].taps

\* C20: when the service call of a short-press action raises, the error is
\* caught once, the call is not made again, and the paddle lifecycle ends in
\* that step with pressed[button] False and tasks[button] None.
C20_TapFailureAbsorbed ==
  [][\A t \in TaskIds :
       (PaddleTask(t) /\ faults /\ TapStep(t))
       => /\ task'[t].taps = 1 /\ task'[t].errs = 1
          /\ calls'[task[t].btn].tap = calls[task[t].btn].tap + 1
          /\ task'[t].pc = "done"
          /\ ~pressed'[task[t].btn] /\ tasks'[task[t].btn] = 0]_vars

C20_Witness ==
  \E t \in TaskIds :
    /\ PaddleTask(t) /\ faults /\ Done(t)
    /\ task[t].taps = 1 /\ task[t].errs = 1
    /\ ~pressed[task[t].btn] /\ tasks[task[t].btn] = 0

\* task t resumes from the sleep of its ramp loop and makes a pass
RampPass(t) ==
  /\ task[t].pc = "ramp" /\ ~task[t].cancelReq
  /\ task'[t].pc # "ramp" \/ task'[t].ticks # task[t].ticks

\* C21: with every service call raising, a pass of the paddle ramp loop
\* (_ramp_loop, SharedBehaviors._ramp) that finds the button pressed issues
\* the next tick although the previous one raised, and the loop is left only
\* at the brightness boundary.
C21_RampSurvivesTickFailure ==
  [][\A t \in TaskIds :
       (PaddleTask(t) /\ task[t].errs >= 1
          /\ RampPass(t) /\ pressed[task[t].btn])
       => /\ task'[t].ticks = task[t].ticks + 1
          /\ task'[t].pc = "ramp" \/ task'[t].rampEnd = "bound"]_vars

C21_Witness ==
  \E t \in TaskIds :
    /\ PaddleTask(t) /\ task[t].errs = 3
    /\ task[t].ticks = 3 /\ task[t].pc = "ramp" /\ pressed[task[t].btn]

\* button b is back to idle: not pressed, every task created for it finished
BackToIdle(b) ==
  /\ ~pressed[b]
  /\ \A t \in TaskIds : task[t].btn = b => Done(t)

\* the last event handled for the button of the run is a Release
ReleasedLast == \A b \in focus : hist[b].relSince

\* C22: if from some point on the last event handled for b is a Release (no
\* further Press arrives), then b eventually is not pressed and has no
\* unfinished task, and stays so, in every profile and action module (fair
\* scheduling of tasks and timers).
C22_ReturnToIdle ==
  <>[]ReleasedLast => <>[](\A b \in focus : BackToIdle(b))

\* the Release found work in flight, and the button has come back to idle
C22_Witness ==
  \E b \in Buttons :
    /\ hist[b].relSince /\ hist[b].nPress >= 2 /\ BackToIdle(b)
    /\ \E t \in TaskIds : task[t].btn = b /\ task[t].ticks >= 1

\* release work t of a cover button runs although a Press of the button was
\* handled after the Release that started t (and one before it)
StaleRelease(t) ==
  /\ task[t].kind = "cover_rel" /\ task[t].pc = "new" /\ task'[t].pc = "done"
  /\ \E u \in TaskIds : u < t /\ task[u].kind = "cover_press" /\ task[u].btn = task[t].btn
  /\ \E u \in TaskIds : u > t /\ task[u].kind = "cover_press" /\ task[u].btn = task[t].btn

\* C23: cover raise/lower: the work of a Release never clears the pressed flag
\* that a Press received after that Release has set.
C23_ReleaseBeforeLaterPress ==
  [][\A t \in TaskIds :
       StaleRelease(t) => pressed'[task[t].btn] = pressed[task[t].btn]]_vars

\* C24: every configuration a controller is constructed from has a hold time
\* and a step time of at least 50 ms and a step percent within 1..25.
C24_ConfigWithinBounds ==
  cfg.status = "built" =>
    /\ cfg.hold >= 50 /\ cfg.step >= 50
    /\ 1 <= cfg.pct /\ cfg.pct <= 25

\* C25: paddle: a Press whose own Release is handled before its hold timer
\* expires produces exactly one short-press action once its lifecycle has
\* finished, also when the next Press arrives before that.
C25_EveryTapActs ==
  \A t \in TaskIds :
    (PaddleTask(t) /\ task[t].isTap /\ Done(t)) => task[t].taps = 1

\* C26: LightActions on/off (P2B): a Release handled before the hold timer of
\* its own Press has expired issues the tap action (turn_on / turn_off), in
\* any event sequence: no older hold timer has marked the press as holding.
C26_OwnTapAlwaysTaps ==
  [][\A b \in Buttons : \A t \in TaskIds :
       (variant = "la_onoff" /\ ReleaseOf(b) /\ OwnRelease(t, b))
       => /\ pend'[b].tap = pend[b].tap + 1
          /\ ~isHolding[b]]_vars

\* C27: paddle: a Release cancels no lifecycle task, moves no task and issues
\* no call; a short press is only issued by a task resuming from its expired
\* hold timer.
C27_ReleaseLeavesTaskAlone ==
  [][\A t \in TaskIds : PaddleTask(t) =>
       /\ ReleaseOf(task[t].btn)
          => /\ task'[t].cancelReq = task[t].cancelReq
             /\ task'[t].pc = task[t].pc
             /\ calls' = calls /\ pend' = pend
       /\ task'[t].taps > task[t].taps
          => /\ task[t].pc = "hold" /\ task[t].rem = 0
             /\ task'[t].expired]_vars

C27_Witness ==
  \E t \in TaskIds :
    /\ PaddleTask(t) /\ task[t].isTap /\ ~task[t].cancelReq
    /\ task[t].expired /\ task[t].taps = 1 /\ Done(t)

\* C28: paddle with a non-light domain: a lifecycle task whose hold timer has
\* expired has issued exactly one short press, whether or not the button was
\* still pressed at expiry, and never a ramp tick.
C28_NonLightHoldIsTap ==
  \A t \in TaskIds :
    (PaddleTask(t) /\ domain # "light" /\ task[t].expired)
    => task[t].taps = 1 /\ task[t].ticks = 0

C28_Witness ==
  \E t \in TaskIds :
    /\ PaddleTask(t) /\ domain = "fan" /\ task[t].expired
    /\ ~task[t].relBefore /\ task[t].taps = 1 /\ Done(t)
    /\ calls[task[t].btn].tap = 1 /\ calls[task[t].btn].tick = 0

\* raise/lower on a light: the 3BRL profile and LightActions
RaiseLowerLight == variant \in {"l3brl", "la_rl"}

\* tasks of the raise/lower hold lifecycles on a light
RaiseLowerTask(t) == RaiseLowerLight /\ task[t].kind \in {"l3brl", "la"}

\* every handled Press of b has one immediate step, issued or about to run
OneStepPerPress(b) ==
  calls[b].step + pend[b].step = hist[b].nPress

\* ramping starts at the expiry of a hold timer only with the button pressed,
\* and a task whose own Release came before its expiry issues no tick
RampOnlyWhenHeld ==
  /\ [](\A t \in TaskIds : (RaiseLowerTask(t) /\ task[t].isTap) => task[t].ticks = 0)
  /\ [][\A t \in TaskIds :
          (RaiseLowerTask(t) /\ task[t].pc = "hold" /\ task'[t].ticks > task[t].ticks)
          => pressed[task[t].btn] /\ task[t].rem = 0]_vars

\* C29 as claimed: raise/lower on a light: every handled Press issues exactly
\* one immediate brightness step, ramping starts only with the button still
\* pressed at the expiry of the hold timer, and a Press released before
\* expiry issues the single step and no ramp tick.
C29_PressStepsOnce ==
  /\ [](RaiseLowerLight => \A b \in Buttons : OneStepPerPress(b))
  /\ RampOnlyWhenHeld

\* C30: cover raise/lower: the hold timer of a Press whose own Release was
\* handled before it expired never starts cover motion, also when the button
\* is pressed again before that timer expires.
C30_ReleasedPressNeverMoves ==
  \A t \in TaskIds :
    (variant \in {"cover_a", "cover_b"} /\ task[t].kind = "cover_press" /\ task[t].isTap)
    => task[t].motion = 0

\* cover raise/lower, both versions of CoverActions and the 3BRL profile
CoverRun == variant \in {"cover_a", "cover_b"}

\* one Press then its Release were handled for b, from idle, every task of the
\* cycle has finished and the release lifecycle read a known position
OneCoverCycle(b) ==
  /\ CoverRun
  /\ hist[b].nPress = 1 /\ hist[b].nRel = 1 /\ hist[b].relSince
  /\ \A t \in TaskIds : task[t].btn = b => Done(t)
  /\ \E t \in TaskIds : task[t].btn = b /\ task[t].kind = "cover_rel" /\ task[t].sawPos

\* C31: cover raise/lower with a known position: one Press-Release cycle from
\* idle ends with either the position step of the release or the motion start
\* of the hold timer, never both and never neither, for every timing of the
\* Release.
C31_TapXorHold ==
  \A b \in Buttons :
    OneCoverCycle(b) => calls[b].pos + calls[b].motion = 1

\* the release lifecycles spawned for button b
ReleaseTasks(b) ==
  {t \in TaskIds : task[t].kind = "cover_rel" /\ task[t].btn = b}

\* C32: cover raise/lower: every handled Release has one release lifecycle;
\* a finished one has issued exactly one stop_cover, as its last call, after
\* the position step when there is one.
C32_ReleaseStopsLast ==
  CoverRun =>
    \A b \in Buttons :
      /\ Cardinality(ReleaseTasks(b)) = hist[b].nRel
      /\ calls[b].stop = Cardinality({t \in ReleaseTasks(b) : Done(t)})
      /\ \A t \in ReleaseTasks(b) :
           Done(t) => /\ Len(task[t].log) \in {1, 2}
                      /\ task[t].log[Len(task[t].log)] = "stop_cover"
                      /\ Len(task[t].log) = 2 => task[t].log[1] = "set_cover_position"

C32_Witness ==
  \E b \in Buttons :
    /\ CoverRun /\ hist[b].nRel = 2 /\ calls[b].stop = 2 /\ calls[b].pos = 1
    /\ \E t \in ReleaseTasks(b) : Len(task[t].log) = 2
    /\ \E t \in ReleaseTasks(b) : Len(task[t].log) = 1

\* C33: five-button profile on a light: raise and lower are never both
\* pressed, and at most one ramp task of the two buttons is neither finished
\* nor cancelled, after any sequence of events of raise, lower and stop.
C33_OneDirectionAtATime ==
  variant = "five" =>
    /\ ~(pressed["raise"] /\ pressed["lower"])
    /\ Cardinality(LiveOf("raise") \cup LiveOf("lower")) <= 1

C33_Witness ==
  /\ variant = "five"
  /\ hist["raise"].nPress = 1 /\ hist["lower"].nPress = 1
  /\ hist["raise"].nRel = 0 /\ hist["lower"].nRel = 0
  /\ pressed["lower"] /\ ~pressed["raise"]
  /\ \E t \in LiveOf("lower") : task[t].pc = "ramp"
  /\ \E t \in TaskIds : task[t].btn = "raise" /\ task[t].ticks >= 1 /\ Done(t)

\* C34: stop button of the 3BRL profile: the step that handles a stop Press
\* leaves raise and lower not pressed, their slots None, and every raise or
\* lower task that was still running cancelled.
C34_StopCancelsRaiseLower ==
  [][(variant = "l3brl" /\ PressOf("stop")) =>
       \A b \in {"raise", "lower"} :
         /\ ~pressed'[b] /\ tasks'[b] = 0
         /\ \A t \in TaskIds :
              (task[t].btn = b /\ task[t].pc \in {"new", "hold", "ramp"})
              => task'[t].cancelReq]_vars

\* C35: SharedBehaviors._ramp with a step value of at least 1: every
\* brightness sent is at most 255 and, when lowering, at least
\* min_brightness; each value sent after the first of a session is greater
\* than the one before when raising and smaller when lowering.
C35_RampValuesInRange ==
  [][\A t \in TaskIds :
       (UsesRamp(t) /\ StepValue >= 1 /\ task'[t].ticks > task[t].ticks)
       => /\ task'[t].lastB <= MaxBrightness
          /\ Dir(task[t].btn) < 0 => task'[t].lastB >= MinBrightness
          /\ task[t].ticks >= 1
               => IF Dir(task[t].btn) > 0 THEN task'[t].lastB > task[t].lastB
                  ELSE task'[t].lastB < task[t].lastB]_vars

C35_Witness ==
  \E t \in TaskIds :
    /\ UsesRamp(t) /\ StepValue >= 1 /\ Dir(task[t].btn) < 0
    /\ task[t].ticks >= 3 /\ task[t].rampEnd = "bound"
    /\ task[t].lastB = MinBrightness

\* C36: FanActions._get_speed_ladder builds [0,25,50,75,100] for
\* percentage_step 25 and [0,33,66,99] for percentage_step 33, and the
\* percentage FanActions._step sets is a member of the ladder.
C36_LadderAsDocumented ==
  (fan.status = "stepped" /\ fan.hasState) =>
    /\ fan.pstep = 75 => fan.ladder = <<0, 25, 50, 75, 100>>
    /\ fan.pstep = 99 => fan.ladder = <<0, 33, 66, 99>>
    /\ fan.sent # -1 => \E i \in 1..Len(fan.ladder) : fan.ladder[i] = fan.sent

\* C37: async_setup: controllers are made for the accepted entries only, and
\* once the loop is over for every accepted entry, whatever was rejected
\* before or after it; async_stop has been called on every controller exactly
\* once as soon as the stop event has fired, and never before.
C37_SetupSkipsAndStops ==
  setup.status \in {"setup", "ready"} =>
    /\ \A i \in 1..Len(setup.controllers) : setup.entries[setup.controllers[i]]
    /\ setup.status = "ready"
         => \A e \in 1..Len(setup.entries) :
              setup.entries[e]
              => Cardinality({i \in 1..Len(setup.controllers) :
                                setup.controllers[i] = e}) = 1
    /\ \A i \in 1..Len(setup.stops) :
         setup.stops[i] = IF setup.fires >= 1 THEN 1 ELSE 0

C37_Witness ==
  /\ setup.status = "ready" /\ setup.fires >= 2
  /\ Len(setup.entries) = 3
  /\ setup.entries[1] /\ ~setup.entries[2] /\ setup.entries[3]
  /\ setup.controllers = <<1, 3>> /\ setup.stops = <<1, 1>>

\* C38: PicoConfig.validate accepts a non-4B device exactly when its type is
\* valid and one of the five entity lists is non-empty and the other four are
\* empty, and a 4B device exactly when all five lists are empty and buttons
\* is a non-empty mapping; everything else is rejected with ValueError.
C38_ValidateExactlyOneDomain ==
  dev.status \in {"accepted", "rejected"} =>
    LET one == \E i \in 1..5 : dev.domains[i] /\ \A j \in 1..5 : j # i => ~dev.domains[j]
        none == \A i \in 1..5 : ~dev.domains[i]
    IN (dev.status = "accepted")
         <=> \/ dev.type \in {"P2B", "2B", "3BRL"} /\ one
             \/ dev.type = "4B" /\ none /\ dev.buttons = "nonempty"

C38_Witness ==
  /\ dev.status = "rejected" /\ dev.type = "3BRL"
  /\ dev.domains[1] /\ dev.domains[3] /\ ~dev.domains[2]
  /\ dev.buttons = "nonempty"

====
